---------------------------- MODULE Spec2Model ----------------------------
(***************************************************************************)
(* clip4llm: the hierarchical configuration stack (config.go) and the      *)
(* traversal driver (main.go).                                             *)
(*                                                                         *)
(* A Go string is modelled as a sequence of one-character strings, so that *)
(* prefix tests, trimming, splitting and glob matching are computed        *)
(* character by character as the code does.                                *)
(***************************************************************************)
EXTENDS Integers, Sequences, FiniteSets, TLC

(***************************************************************************)
(* Go standard library helpers used by the code                            *)
(***************************************************************************)

\* strings.HasPrefix
HasPrefix(s, p) == Len(p) <= Len(s) /\ SubSeq(s, 1, Len(p)) = p

\* strings.TrimPrefix
TrimPrefix(s, p) == IF HasPrefix(s, p) THEN SubSeq(s, Len(p) + 1, Len(s)) ELSE s

\* filepath.Separator
Separator == <<"/">>

\* filepath.Join(dir, name) for a clean dir and a single name
Join(dir, name) == dir \o Separator \o name

\* filepath.Rel(base, target) for a target the walker built below base:
\* "." for base itself, else the part after base and the separator.
Rel(base, target) ==
    IF target = base THEN <<".">>
    ELSE TrimPrefix(target, base \o Separator)

\* unicode.IsSpace restricted to the characters of the model
IsSpace(c) == c \in {" ", "\t"}

RECURSIVE TrimLeft(_)
TrimLeft(s) ==
    IF s # <<>> /\ IsSpace(Head(s)) THEN TrimLeft(Tail(s)) ELSE s

RECURSIVE TrimRight(_)
TrimRight(s) ==
    IF s # <<>> /\ IsSpace(s[Len(s)]) THEN TrimRight(SubSeq(s, 1, Len(s) - 1)) ELSE s

\* strings.TrimSpace
TrimSpace(s) == TrimRight(TrimLeft(s))

\* strings.Index(s, c) for a one-character separator: 0 when absent
RECURSIVE IndexFrom(_, _, _)
IndexFrom(s, c, i) ==
    IF i > Len(s) THEN 0
    ELSE IF s[i] = c THEN i
    ELSE IndexFrom(s, c, i + 1)

Index(s, c) == IndexFrom(s, c, 1)

\* strings.Split(s, sep) for a one-character separator
RECURSIVE Split(_, _)
Split(s, c) ==
    LET i == Index(s, c)
    IN  IF i = 0 THEN <<s>>
        ELSE <<SubSeq(s, 1, i - 1)>> \o Split(SubSeq(s, i + 1, Len(s)), c)

\* strings.SplitN(s, sep, 2)
SplitN2(s, c) ==
    LET i == Index(s, c)
    IN  IF i = 0 THEN <<s>>
        ELSE <<SubSeq(s, 1, i - 1), SubSeq(s, i + 1, Len(s))>>

Digits == <<"0", "1", "2", "3", "4", "5", "6", "7", "8", "9">>

IsDigit(c) == \E i \in 1..10 : Digits[i] = c

DigitVal(c) == (CHOOSE i \in 1..10 : Digits[i] = c) - 1

RECURSIVE AtoiDigits(_, _)
AtoiDigits(s, acc) ==
    IF s = <<>> THEN acc ELSE AtoiDigits(Tail(s), acc * 10 + DigitVal(Head(s)))

\* strconv.Atoi: an optional sign and at least one decimal digit
Atoi(s) ==
    LET signed == s # <<>> /\ Head(s) \in {"+", "-"}
        body   == IF signed THEN Tail(s) ELSE s
        ok     == body # <<>> /\ \A i \in 1..Len(body) : IsDigit(body[i])
        mag    == IF ok THEN AtoiDigits(body, 0) ELSE 0
    IN  [err |-> ~ok,
         val |-> IF signed /\ Head(s) = "-" THEN 0 - mag ELSE mag]

\* filepath.Match on a well-formed pattern of literals, '*' and '?':
\* '*' matches any run of non-separator characters, '?' one of them.
RECURSIVE GlobMatch(_, _)
GlobMatch(p, s) ==
    IF p = <<>> THEN s = <<>>
    ELSE IF Head(p) = "*"
         THEN \/ GlobMatch(Tail(p), s)
              \/ s # <<>> /\ Head(s) # "/" /\ GlobMatch(p, Tail(s))
    ELSE IF Head(p) = "?"
         THEN s # <<>> /\ Head(s) # "/" /\ GlobMatch(Tail(p), Tail(s))
    ELSE s # <<>> /\ Head(s) = Head(p) /\ GlobMatch(Tail(p), Tail(s))

\* A '[' opens a character class; the model's alphabet has no ']', so every
\* class is unterminated and the pattern is malformed (ErrBadPattern).
BadPattern(p) == \E i \in 1..Len(p) : p[i] = "["

\* filepath.Match(pattern, name) -> (matched, err)
Match(pattern, name) ==
    IF BadPattern(pattern)
    THEN [matched |-> FALSE, err |-> TRUE]
    ELSE [matched |-> GlobMatch(pattern, name), err |-> FALSE]

(***************************************************************************)
(* String constants                                                        *)
(***************************************************************************)

kDelimiter   == <<"d", "e", "l", "i", "m", "i", "t", "e", "r">>
kMaxSize     == <<"m", "a", "x", "-", "s", "i", "z", "e">>
kNoRecursive == <<"n", "o", "-", "r", "e", "c", "u", "r", "s", "i", "v", "e">>
kInclude     == <<"i", "n", "c", "l", "u", "d", "e">>
kExclude     == <<"e", "x", "c", "l", "u", "d", "e">>
sTrue        == <<"t", "r", "u", "e">>
\* The backquote character (written by name: the lexer refuses it in a string)
Backquote    == "BACKQUOTE"
sBackticks   == <<Backquote, Backquote, Backquote>>
sDashes      == <<"-", "-", "-">>
sStarMd      == <<"*", ".", "m", "d">>
sReadme      == <<"R", "E", "A", "D", "M", "E", ".", "m", "d">>
sOtherMd     == <<"o", ".", "m", "d">>
sDirA        == <<"A">>
sDirAStarMd  == <<"A", ",", " ", "*", ".", "m", "d">>
sDirB        == <<"b">>
sHidden      == <<".", "h">>
s1024        == <<"1", "0", "2", "4">>
s64          == <<"6", "4">>
sEq          == <<"=">>

(***************************************************************************)
(* config.go                                                               *)
(***************************************************************************)

\* A nil *Config
Nil == [nil |-> TRUE]

\* &Config{}: the zero value loadConfigFromFile starts from
ZeroConfig ==
    [Delimiter |-> <<>>, MaxSizeKB |-> 0, NoRecursive |-> FALSE,
     Include |-> <<>>, Exclude |-> <<>>]

\* The hard-coded defaults GetEffectiveConfig starts from
DefaultConfig ==
    [Delimiter |-> sBackticks, MaxSizeKB |-> 32, NoRecursive |-> FALSE,
     Include |-> <<>>, Exclude |-> <<>>]

RECURSIVE TrimNonEmpty(_)
TrimNonEmpty(parts) ==
    IF parts = <<>> THEN <<>>
    ELSE LET trimmed == TrimSpace(Head(parts))
         IN  (IF trimmed # <<>> THEN <<trimmed>> ELSE <<>>) \o TrimNonEmpty(Tail(parts))

\* parseCommaSeparated that trims its elements and keeps the empty ones
RECURSIVE TrimEach(_)
TrimEach(parts) ==
    IF parts = <<>> THEN <<>> ELSE <<TrimSpace(Head(parts))>> \o TrimEach(Tail(parts))

parseCommaSeparatedKeepsEmpty(input) == TrimEach(Split(input, ","))

\* parseCommaSeparated (main.go)
parseCommaSeparated(input) == TrimNonEmpty(Split(input, ","))

\* A scanner loop in which include and exclude lines add to the list
ParseLineAddsToLists(config, raw) ==
    LET line  == TrimSpace(raw)
        parts == SplitN2(line, "=")
    IN  IF line = <<>> \/ HasPrefix(line, <<"#">>) THEN config
        ELSE IF Len(parts) # 2 THEN config
        ELSE LET key   == TrimSpace(parts[1])
                 value == TrimSpace(parts[2])
             IN  IF key = kDelimiter THEN [config EXCEPT !.Delimiter = value]
                 ELSE IF key = kMaxSize
                      THEN IF Atoi(value).err THEN config
                           ELSE [config EXCEPT !.MaxSizeKB = Atoi(value).val]
                 ELSE IF key = kNoRecursive
                      THEN [config EXCEPT !.NoRecursive = (value = sTrue)]
                 ELSE IF key = kInclude
                      THEN [config EXCEPT !.Include = @ \o parseCommaSeparated(value)]
                 ELSE IF key = kExclude
                      THEN [config EXCEPT !.Exclude = @ \o parseCommaSeparated(value)]
                 ELSE config

\* A scanner loop in which a max-size that is no integer clears the field
ParseLineBadMaxSizeUnsets(config, raw) ==
    LET line  == TrimSpace(raw)
        parts == SplitN2(line, "=")
    IN  IF line = <<>> \/ HasPrefix(line, <<"#">>) THEN config
        ELSE IF Len(parts) # 2 THEN config
        ELSE LET key   == TrimSpace(parts[1])
                 value == TrimSpace(parts[2])
             IN  IF key = kDelimiter THEN [config EXCEPT !.Delimiter = value]
                 ELSE IF key = kMaxSize
                      THEN [config EXCEPT !.MaxSizeKB = Atoi(value).val]
                 ELSE IF key = kNoRecursive
                      THEN [config EXCEPT !.NoRecursive = (value = sTrue)]
                 ELSE IF key = kInclude
                      THEN [config EXCEPT !.Include = parseCommaSeparated(value)]
                 ELSE IF key = kExclude
                      THEN [config EXCEPT !.Exclude = parseCommaSeparated(value)]
                 ELSE config

\* One iteration of the scanner loop of loadConfigFromFile
ParseLine(config, raw) ==
    LET line  == TrimSpace(raw)
        parts == SplitN2(line, "=")
    IN  IF line = <<>> \/ HasPrefix(line, <<"#">>) THEN config
        ELSE IF Len(parts) # 2 THEN config
        ELSE LET key   == TrimSpace(parts[1])
                 value == TrimSpace(parts[2])
             IN  IF key = kDelimiter THEN [config EXCEPT !.Delimiter = value]
                 ELSE IF key = kMaxSize
                      THEN IF Atoi(value).err THEN config
                           ELSE [config EXCEPT !.MaxSizeKB = Atoi(value).val]
                 ELSE IF key = kNoRecursive
                      THEN [config EXCEPT !.NoRecursive = (value = sTrue)]
                 ELSE IF key = kInclude
                      THEN [config EXCEPT !.Include = parseCommaSeparated(value)]
                 ELSE IF key = kExclude
                      THEN [config EXCEPT !.Exclude = parseCommaSeparated(value)]
                 ELSE config

RECURSIVE ParseLines(_, _)
ParseLines(config, lines) ==
    IF lines = <<>> THEN config
    ELSE ParseLines(ParseLine(config, Head(lines)), Tail(lines))

\* What os.Open of a config path finds: no file, a file that cannot be
\* opened, or a file with its lines.
Absent     == [kind |-> "absent", lines |-> <<>>]
Unreadable == [kind |-> "unreadable", lines |-> <<>>]
FileOf(lines) == [kind |-> "file", lines |-> lines]

\* A path that opens but whose read stops with an error (a directory, a line
\* longer than the scanner's buffer, a failing disk): lines are the ones the
\* scanner delivered before scanner.Err
ReadFails(lines) == [kind |-> "readfails", lines |-> lines]

\* ConfigStack.loadConfigFromFile: nil when os.Open fails, else the record
\* filled from the lines scanned; scanner.Err is logged and nothing else
loadConfigFromFile(file) ==
    IF file.kind \in {"absent", "unreadable"} THEN Nil
    ELSE ParseLines(ZeroConfig, file.lines)

\* mergeConfig that takes the delimiter of every layer, set or not
mergeConfigAnyDelimiter(target, source) ==
    IF source = Nil THEN target
    ELSE [Delimiter   |-> source.Delimiter,
          MaxSizeKB   |-> IF source.MaxSizeKB > 0 THEN source.MaxSizeKB
                          ELSE target.MaxSizeKB,
          NoRecursive |-> IF source.NoRecursive THEN TRUE ELSE target.NoRecursive,
          Include     |-> IF Len(source.Include) > 0
                          THEN target.Include \o source.Include ELSE target.Include,
          Exclude     |-> IF Len(source.Exclude) > 0
                          THEN target.Exclude \o source.Exclude ELSE target.Exclude]

\* mergeConfig that keeps the larger max-size
mergeConfigLargestMaxSize(target, source) ==
    IF source = Nil THEN target
    ELSE [Delimiter   |-> IF source.Delimiter # <<>> THEN source.Delimiter
                          ELSE target.Delimiter,
          MaxSizeKB   |-> IF source.MaxSizeKB > target.MaxSizeKB THEN source.MaxSizeKB
                          ELSE target.MaxSizeKB,
          NoRecursive |-> IF source.NoRecursive THEN TRUE ELSE target.NoRecursive,
          Include     |-> IF Len(source.Include) > 0
                          THEN target.Include \o source.Include ELSE target.Include,
          Exclude     |-> IF Len(source.Exclude) > 0
                          THEN target.Exclude \o source.Exclude ELSE target.Exclude]

\* mergeConfig that replaces a list by the list of the layer
mergeConfigReplacesLists(target, source) ==
    IF source = Nil THEN target
    ELSE [Delimiter   |-> IF source.Delimiter # <<>> THEN source.Delimiter
                          ELSE target.Delimiter,
          MaxSizeKB   |-> IF source.MaxSizeKB > 0 THEN source.MaxSizeKB
                          ELSE target.MaxSizeKB,
          NoRecursive |-> IF source.NoRecursive THEN TRUE ELSE target.NoRecursive,
          Include     |-> IF Len(source.Include) > 0
                          THEN source.Include ELSE target.Include,
          Exclude     |-> IF Len(source.Exclude) > 0
                          THEN source.Exclude ELSE target.Exclude]

\* mergeConfig that puts the list of the layer in front
mergeConfigPrepends(target, source) ==
    IF source = Nil THEN target
    ELSE [Delimiter   |-> IF source.Delimiter # <<>> THEN source.Delimiter
                          ELSE target.Delimiter,
          MaxSizeKB   |-> IF source.MaxSizeKB > 0 THEN source.MaxSizeKB
                          ELSE target.MaxSizeKB,
          NoRecursive |-> IF source.NoRecursive THEN TRUE ELSE target.NoRecursive,
          Include     |-> IF Len(source.Include) > 0
                          THEN source.Include \o target.Include ELSE target.Include,
          Exclude     |-> IF Len(source.Exclude) > 0
                          THEN source.Exclude \o target.Exclude ELSE target.Exclude]

\* mergeConfig that takes no-recursive from every layer, true or false
mergeConfigLastNoRecursive(target, source) ==
    IF source = Nil THEN target
    ELSE [Delimiter   |-> IF source.Delimiter # <<>> THEN source.Delimiter
                          ELSE target.Delimiter,
          MaxSizeKB   |-> IF source.MaxSizeKB > 0 THEN source.MaxSizeKB
                          ELSE target.MaxSizeKB,
          NoRecursive |-> source.NoRecursive,
          Include     |-> IF Len(source.Include) > 0
                          THEN target.Include \o source.Include ELSE target.Include,
          Exclude     |-> IF Len(source.Exclude) > 0
                          THEN target.Exclude \o source.Exclude ELSE target.Exclude]

\* ConfigStack.mergeConfig(target, source)
mergeConfig(target, source) ==
    IF source = Nil THEN target
    ELSE [Delimiter   |-> IF source.Delimiter # <<>> THEN source.Delimiter
                          ELSE target.Delimiter,
          MaxSizeKB   |-> IF source.MaxSizeKB > 0 THEN source.MaxSizeKB
                          ELSE target.MaxSizeKB,
          NoRecursive |-> IF source.NoRecursive THEN TRUE ELSE target.NoRecursive,
          Include     |-> IF Len(source.Include) > 0
                          THEN target.Include \o source.Include ELSE target.Include,
          Exclude     |-> IF Len(source.Exclude) > 0
                          THEN target.Exclude \o source.Exclude ELSE target.Exclude]

RECURSIVE MergeLayers(_, _)
MergeLayers(effective, ls) ==
    IF ls = <<>> THEN effective
    ELSE MergeLayers(mergeConfig(effective, Head(ls).Config), Tail(ls))

\* The layers in reverse order
RECURSIVE Reverse(_)
Reverse(ls) == IF ls = <<>> THEN <<>> ELSE Append(Reverse(Tail(ls)), Head(ls))

\* GetEffectiveConfig that merges the newest layer first
GetEffectiveConfigNewestFirst(stack) == MergeLayers(DefaultConfig, Reverse(stack.layers))

\* ConfigStack.GetEffectiveConfig
GetEffectiveConfig(stack) == MergeLayers(DefaultConfig, stack.layers)

Layer(dir, cfg) == [Directory |-> dir, Config |-> cfg]

\* os.UserHomeDir failed: cs.homeDir keeps its zero value
NoHome == <<>>

\* NewConfigStack that loads the root's layer before the home's
NewConfigStackRootFirst(rootDir, homeDir, homeFile, rootFile) ==
    LET rootCfg == loadConfigFromFile(rootFile)
        l1 == IF rootDir # homeDir /\ rootCfg # Nil
              THEN <<Layer(rootDir, rootCfg)>> ELSE <<>>
        homeCfg == loadConfigFromFile(homeFile)
        l2 == IF homeDir # NoHome /\ homeCfg # Nil
              THEN l1 \o <<Layer(homeDir, homeCfg)>> ELSE l1
    IN  [layers |-> l2, cache |-> <<>>, rootDir |-> rootDir, homeDir |-> homeDir]

\* NewConfigStack(rootDir): homeDir is the answer of os.UserHomeDir (NoHome on
\* error); homeFile and rootFile are what the two config paths hold on disk.
NewConfigStack(rootDir, homeDir, homeFile, rootFile) ==
    LET homeCfg == loadConfigFromFile(homeFile)
        l1 == IF homeDir # NoHome /\ homeCfg # Nil
              THEN <<Layer(homeDir, homeCfg)>> ELSE <<>>
        rootCfg == loadConfigFromFile(rootFile)
        l2 == IF rootDir # homeDir /\ rootCfg # Nil
              THEN l1 \o <<Layer(rootDir, rootCfg)>> ELSE l1
    IN  [layers |-> l2, cache |-> <<>>, rootDir |-> rootDir, homeDir |-> homeDir]

\* cs.cache[dir] = cfg
CachePut(cache, dir, cfg) ==
    [x \in (DOMAIN cache) \cup {dir} |-> IF x = dir THEN cfg ELSE cache[x]]

\* PushIfExists with the guard of line 166 on the root alone
PushIfExistsGuardsRootOnly(stack, dir, file) ==
    IF dir = stack.rootDir
    THEN [cs |-> stack, ret |-> FALSE, read |-> FALSE]
    ELSE IF dir \in DOMAIN stack.cache
    THEN LET cfg == stack.cache[dir]
         IN  IF cfg # Nil
             THEN [cs |-> [stack EXCEPT !.layers = Append(@, Layer(dir, cfg))],
                   ret |-> TRUE, read |-> FALSE]
             ELSE [cs |-> stack, ret |-> FALSE, read |-> FALSE]
    ELSE LET cfg == loadConfigFromFile(file)
             cached == [stack EXCEPT !.cache = CachePut(@, dir, cfg)]
         IN  IF cfg # Nil
             THEN [cs |-> [cached EXCEPT !.layers = Append(@, Layer(dir, cfg))],
                   ret |-> TRUE, read |-> TRUE]
             ELSE [cs |-> cached, ret |-> FALSE, read |-> TRUE]

\* PushIfExists that caches a configuration only when it found one
PushIfExistsForgetsAbsent(stack, dir, file) ==
    IF dir = stack.rootDir \/ dir = stack.homeDir
    THEN [cs |-> stack, ret |-> FALSE, read |-> FALSE]
    ELSE IF dir \in DOMAIN stack.cache
    THEN LET cfg == stack.cache[dir]
         IN  IF cfg # Nil
             THEN [cs |-> [stack EXCEPT !.layers = Append(@, Layer(dir, cfg))],
                   ret |-> TRUE, read |-> FALSE]
             ELSE [cs |-> stack, ret |-> FALSE, read |-> FALSE]
    ELSE LET cfg == loadConfigFromFile(file)
         IN  IF cfg # Nil
             THEN [cs |-> [stack EXCEPT !.cache = CachePut(@, dir, cfg),
                                        !.layers = Append(@, Layer(dir, cfg))],
                   ret |-> TRUE, read |-> TRUE]
             ELSE [cs |-> stack, ret |-> FALSE, read |-> TRUE]

\* PushIfExists that never looks into the cache
PushIfExistsAlwaysLoads(stack, dir, file) ==
    IF dir = stack.rootDir \/ dir = stack.homeDir
    THEN [cs |-> stack, ret |-> FALSE, read |-> FALSE]
    ELSE LET cfg == loadConfigFromFile(file)
             cached == [stack EXCEPT !.cache = CachePut(@, dir, cfg)]
         IN  IF cfg # Nil
             THEN [cs |-> [cached EXCEPT !.layers = Append(@, Layer(dir, cfg))],
                   ret |-> TRUE, read |-> TRUE]
             ELSE [cs |-> cached, ret |-> FALSE, read |-> TRUE]

\* PushIfExists that pushes what the file holds now when the cache has a
\* configuration for dir
PushIfExistsReparses(stack, dir, file) ==
    IF dir = stack.rootDir \/ dir = stack.homeDir
    THEN [cs |-> stack, ret |-> FALSE, read |-> FALSE]
    ELSE IF dir \in DOMAIN stack.cache /\ stack.cache[dir] = Nil
    THEN [cs |-> stack, ret |-> FALSE, read |-> FALSE]
    ELSE LET known == dir \in DOMAIN stack.cache
             loaded == loadConfigFromFile(file)
             cfg == IF known /\ loaded = Nil THEN stack.cache[dir] ELSE loaded
             cached == [stack EXCEPT !.cache = CachePut(@, dir, cfg)]
         IN  IF cfg # Nil
             THEN [cs |-> [cached EXCEPT !.layers = Append(@, Layer(dir, cfg))],
                   ret |-> TRUE, read |-> ~known]
             ELSE [cs |-> cached, ret |-> FALSE, read |-> TRUE]

\* ConfigStack.PushIfExists(dir); file is what the config path of dir holds
\* on disk.  Returns the new stack, the boolean result and whether
\* loadConfigFromFile was reached (a disk read).
PushIfExists(stack, dir, file) ==
    IF dir = stack.rootDir \/ dir = stack.homeDir
    THEN [cs |-> stack, ret |-> FALSE, read |-> FALSE]
    ELSE IF dir \in DOMAIN stack.cache
    THEN LET cfg == stack.cache[dir]
         IN  IF cfg # Nil
             THEN [cs |-> [stack EXCEPT !.layers = Append(@, Layer(dir, cfg))],
                   ret |-> TRUE, read |-> FALSE]
             ELSE [cs |-> stack, ret |-> FALSE, read |-> FALSE]
    ELSE LET cfg == loadConfigFromFile(file)
             cached == [stack EXCEPT !.cache = CachePut(@, dir, cfg)]
         IN  IF cfg # Nil
             THEN [cs |-> [cached EXCEPT !.layers = Append(@, Layer(dir, cfg))],
                   ret |-> TRUE, read |-> TRUE]
             ELSE [cs |-> cached, ret |-> FALSE, read |-> TRUE]

\* A Pop that removes the top layer whatever its directory
PopWhateverTop(stack, dir) ==
    IF Len(stack.layers) > 0
    THEN [stack EXCEPT !.layers = SubSeq(@, 1, Len(@) - 1)]
    ELSE stack

\* A Pop that removes nothing
PopNothing(stack, dir) == stack

\* ConfigStack.Pop(dir)
Pop(stack, dir) ==
    IF Len(stack.layers) > 0 /\ stack.layers[Len(stack.layers)].Directory = dir
    THEN [stack EXCEPT !.layers = SubSeq(@, 1, Len(@) - 1)]
    ELSE stack

(***************************************************************************)
(* main.go: pattern matching and the per-entry decisions                   *)
(***************************************************************************)

\* Define the max total size limit in bytes (1MB = 1,048,576 bytes)
maxTotalSize == 1048576

\* matchesAnyPatternWithPath that never tries relPath without its "./"
RECURSIVE matchesAnyPatternUntrimmed(_, _, _)
matchesAnyPatternUntrimmed(name, relPath, patterns) ==
    IF patterns = <<>> THEN FALSE
    ELSE LET pattern == Head(patterns)
             byName  == Match(pattern, name)
             byPath  == Match(pattern, relPath)
         IN  IF ~byName.err /\ byName.matched THEN TRUE
             ELSE IF relPath # <<>> /\ ~byPath.err /\ byPath.matched THEN TRUE
             ELSE matchesAnyPatternUntrimmed(name, relPath, Tail(patterns))

\* matchesAnyPatternWithPath that gives up at the first pattern filepath.Match
\* rejects
RECURSIVE matchesAnyPatternStopsAtError(_, _, _)
matchesAnyPatternStopsAtError(name, relPath, patterns) ==
    IF patterns = <<>> THEN FALSE
    ELSE LET pattern     == Head(patterns)
             byName      == Match(pattern, name)
             byPath      == Match(pattern, relPath)
             trimmedPath == TrimPrefix(relPath, <<".", "/">>)
             byTrimmed   == Match(pattern, trimmedPath)
         IN  IF byName.err THEN FALSE
             ELSE IF byName.matched THEN TRUE
             ELSE IF relPath # <<>> /\ byPath.matched THEN TRUE
             ELSE IF relPath # <<>> /\ trimmedPath # relPath /\ byTrimmed.matched
                  THEN TRUE
             ELSE matchesAnyPatternStopsAtError(name, relPath, Tail(patterns))

\* matchesAnyPatternWithPath(name, relPath, patterns)
RECURSIVE matchesAnyPatternWithPath(_, _, _)
matchesAnyPatternWithPath(name, relPath, patterns) ==
    IF patterns = <<>> THEN FALSE
    ELSE LET pattern     == Head(patterns)
             byName      == Match(pattern, name)
             byPath      == Match(pattern, relPath)
             trimmedPath == TrimPrefix(relPath, <<".", "/">>)
             byTrimmed   == Match(pattern, trimmedPath)
         IN  IF ~byName.err /\ byName.matched THEN TRUE
             ELSE IF relPath # <<>> /\ ~byPath.err /\ byPath.matched THEN TRUE
             ELSE IF /\ relPath # <<>>
                     /\ trimmedPath # relPath
                     /\ ~byTrimmed.err /\ byTrimmed.matched THEN TRUE
             ELSE matchesAnyPatternWithPath(name, relPath, Tail(patterns))

\* The command line after flag.Parse and flag.Visit: each xSet is whether the
\* flag was given, the value is the flag's (its default when not given).
NoFlags ==
    [delimiterSet |-> FALSE, delimiter |-> <<>>,
     maxSizeSet |-> FALSE, maxSize |-> 0,
     includeSetFlag |-> FALSE, include |-> <<>>,
     excludeSetFlag |-> FALSE, exclude |-> <<>>,
     noRecursiveSet |-> FALSE, noRecursive |-> FALSE]

\* cliIncludePatterns (nil unless --include was given a non-empty value)
cliIncludePatterns(flags) ==
    IF flags.includeSetFlag /\ flags.include # <<>>
    THEN parseCommaSeparated(flags.include) ELSE <<>>

\* cliExcludePatterns (nil unless --exclude was given a non-empty value)
cliExcludePatterns(flags) ==
    IF flags.excludeSetFlag /\ flags.exclude # <<>>
    THEN parseCommaSeparated(flags.exclude) ELSE <<>>

\* Overrides that leave no-recursive to the configuration files
ApplyOverridesButNoRecursive(effectiveConfig, flags) ==
    [effectiveConfig EXCEPT
        !.Delimiter   = IF flags.delimiterSet THEN flags.delimiter ELSE @,
        !.MaxSizeKB   = IF flags.maxSizeSet THEN flags.maxSize ELSE @]

\* Apply CLI overrides (CLI always wins), on the record GetEffectiveConfig returned
ApplyOverrides(effectiveConfig, flags) ==
    [effectiveConfig EXCEPT
        !.Delimiter   = IF flags.delimiterSet THEN flags.delimiter ELSE @,
        !.MaxSizeKB   = IF flags.maxSizeSet THEN flags.maxSize ELSE @,
        !.NoRecursive = IF flags.noRecursiveSet THEN flags.noRecursive ELSE @]

\* includePatterns with the CLI list appended to the merged list
IncludePatternsAppended(effectiveConfig, flags) ==
    effectiveConfig.Include \o cliIncludePatterns(flags)

\* includePatterns: the CLI list alone when --include was given
IncludePatterns(effectiveConfig, flags) ==
    IF flags.includeSetFlag THEN cliIncludePatterns(flags)
    ELSE effectiveConfig.Include

\* excludePatterns: the merged list, then the CLI patterns
ExcludePatterns(effectiveConfig, flags) ==
    effectiveConfig.Exclude \o cliExcludePatterns(flags)

\* relPath as used for pattern matching: "" for the root, else prefixed with
\* "./" unless it already starts with "."
RelPathForMatch(dir, path) ==
    LET relPath == Rel(dir, path)
    IN  IF relPath = <<".">> THEN <<>>
        ELSE IF ~HasPrefix(relPath, <<".">>) THEN <<".", "/">> \o relPath
        ELSE relPath

\* relPathForOutput: prefixed with "./" unless it already starts with "."
RelPathForOutput(dir, path) ==
    LET relPath == Rel(dir, path)
    IN  IF ~HasPrefix(relPath, <<".">>) THEN <<".", "/">> \o relPath ELSE relPath

\* shouldExclude without the command-line term
ShouldExcludeUnlessIncluded(name, relPath, includePatterns, excludePatterns, cliExclude) ==
    LET excluded           == matchesAnyPatternWithPath(name, relPath, excludePatterns)
        explicitlyIncluded == matchesAnyPatternWithPath(name, relPath, includePatterns)
    IN  excluded /\ ~explicitlyIncluded

\* shouldExclude := excluded && (!explicitlyIncluded || cliExcluded)
ShouldExclude(name, relPath, includePatterns, excludePatterns, cliExclude) ==
    LET excluded           == matchesAnyPatternWithPath(name, relPath, excludePatterns)
        explicitlyIncluded == matchesAnyPatternWithPath(name, relPath, includePatterns)
        cliExcluded        == matchesAnyPatternWithPath(name, relPath, cliExclude)
    IN  excluded /\ (~explicitlyIncluded \/ cliExcluded)

\* A hidden test that any include pattern at all switches off
SkipHiddenUnlessIncludes(name, relPath, includePatterns) ==
    HasPrefix(name, <<".">>) /\ includePatterns = <<>>

\* A hidden entry that matches no include pattern is skipped
SkipHidden(name, relPath, includePatterns) ==
    /\ HasPrefix(name, <<".">>)
    /\ ~matchesAnyPatternWithPath(name, relPath, includePatterns)

\* The driver has left pushedDir when path is neither it nor below it
LeftDir(path, pushedDir) ==
    ~HasPrefix(path, pushedDir \o Separator) /\ path # pushedDir

\* One pass of "for pushedDir := range pushedDirs": Go iterates a map in an
\* unspecified order, so Pop is called on the left directories in any order.
\* The set of stacks the pass can end with.
RECURSIVE PopInAnyOrder(_, _)
PopInAnyOrder(stack, left) ==
    IF left = {} THEN {stack}
    ELSE UNION { PopInAnyOrder(Pop(stack, d), left \ {d}) : d \in left }

\* The loop "for len(pushedDirs) > 0": passes until one removes nothing.
\* The set of (stack, pushedDirs) pairs it can end with.
RECURSIVE PopLeftDirs(_, _, _)
PopLeftDirs(stack, pushed, path) ==
    LET toRemove == { d \in pushed : LeftDir(path, d) }
    IN  IF pushed = {} \/ toRemove = {}
        THEN { [cs |-> stack, pushedDirs |-> pushed] }
        ELSE UNION { PopLeftDirs(st, pushed \ toRemove, path) :
                     st \in PopInAnyOrder(stack, toRemove) }

\* len(fmt.Sprintf("\nFile: %s\n\n%s\n%s\n%s\n\n", relPathForOutput, delimiter,
\* content, delimiter)): 13 fixed bytes, the path, the content, two delimiters
FileSize(relPathForOutput, delimiter, contentLen) ==
    13 + Len(relPathForOutput) + 2 * Len(delimiter) + contentLen

\* The ceiling test with >= for >
ExceedsOrReachesLimit(total, size) == total + size >= maxTotalSize

\* if totalSize+fileSize > maxTotalSize
ExceedsLimit(total, size) == total + size > maxTotalSize

\* A size test that also turns away a file of exactly the limit
TooLargeAtLimit(size, maxSizeKB) == size >= maxSizeKB * 1024

\* info.Size() > int64(effectiveConfig.MaxSizeKB) * 1024
TooLarge(size, maxSizeKB) == size > maxSizeKB * 1024

(***************************************************************************)
(* The environment of a run: command line, directory tree, file contents   *)
(***************************************************************************)

\* Entries the walker yields in one run, the root not counted
MaxEntries == 3

\* Sources of settings in one run: config files found plus flags given
MaxSettings == 2

\* os.Getwd()
RootDir == <<"/", "r">>

RootName == <<"r">>

\* A home directory outside the tree
OutsideHome == <<"/", "h">>

\* A home directory inside the tree
InsideHome == <<"/", "r", "/", "A">>

\* What os.UserHomeDir can answer: nothing, a directory outside the tree, the
\* working directory itself, a directory below it
HomeDirs == {NoHome, OutsideHome, RootDir, InsideHome}

cfgExcludeMd     == <<kExclude \o sEq \o sStarMd>>
cfgIncludeReadme == <<kInclude \o sEq \o sReadme>>
cfgNoRecursive   == <<kNoRecursive \o sEq \o sTrue>>
cfgMaxSize       == <<kMaxSize \o sEq \o s1024>>

\* What a .clip4llm path can hold
ConfigFiles ==
    {Absent, Unreadable, FileOf(cfgExcludeMd), FileOf(cfgIncludeReadme),
     FileOf(cfgNoRecursive), FileOf(cfgMaxSize)}

\* A config file that includes a hidden entry
cfgIncludeHidden == <<kInclude \o sEq \o sHidden>>

\* What the .clip4llm of the working directory can hold
RootConfigFiles == ConfigFiles \cup {FileOf(cfgIncludeHidden)}

\* The command lines of the model
FlagChoices ==
    {NoFlags,
     [NoFlags EXCEPT !.excludeSetFlag = TRUE, !.exclude = sDirAStarMd],
     [NoFlags EXCEPT !.includeSetFlag = TRUE, !.include = sReadme],
     [NoFlags EXCEPT !.includeSetFlag = TRUE, !.include = sStarMd,
                     !.excludeSetFlag = TRUE, !.exclude = sStarMd],
     [NoFlags EXCEPT !.noRecursiveSet = TRUE, !.noRecursive = TRUE],
     [NoFlags EXCEPT !.noRecursiveSet = TRUE, !.noRecursive = FALSE],
     [NoFlags EXCEPT !.maxSizeSet = TRUE, !.maxSize = 1024],
     [NoFlags EXCEPT !.maxSizeSet = TRUE, !.maxSize = 64],
     [NoFlags EXCEPT !.delimiterSet = TRUE, !.delimiter = sDashes]}

\* The characters of entry names in byte order (os.ReadDir sorts by name)
CharOrder == <<".", "A", "D", "E", "M", "R", "b", "d", "h", "m", "o">>

CharCode(c) == CHOOSE i \in 1..Len(CharOrder) : CharOrder[i] = c

\* a < b as Go compares strings
RECURSIVE StrLess(_, _)
StrLess(a, b) ==
    IF a = <<>> THEN b # <<>>
    ELSE IF b = <<>> THEN FALSE
    ELSE IF Head(a) = Head(b) THEN StrLess(Tail(a), Tail(b))
    ELSE CharCode(Head(a)) < CharCode(Head(b))

\* The entries a directory can hold: name and kind
DirEntries ==
    {[name |-> sDirA, isDir |-> TRUE], [name |-> sDirB, isDir |-> TRUE],
     [name |-> sHidden, isDir |-> TRUE]}

FileEntries ==
    {[name |-> sReadme, isDir |-> FALSE], [name |-> sOtherMd, isDir |-> FALSE],
     [name |-> sHidden, isDir |-> FALSE]}

\* The listings os.ReadDir can return when at most budget entries are left
Listings(budget) ==
    { S \in SUBSET (DirEntries \cup FileEntries) :
        /\ Cardinality(S) <= budget
        /\ \A e, f \in S : e.name = f.name => e = f }

\* os.ReadDir returns the entries sorted by filename
RECURSIVE SortEntries(_)
SortEntries(S) ==
    IF S = {} THEN <<>>
    ELSE LET first == CHOOSE e \in S : \A f \in S \ {e} : StrLess(e.name, f.name)
         IN  <<first>> \o SortEntries(S \ {first})

\* The fs.DirEntry values walkDir passes for the children of path
RECURSIVE Children(_, _)
Children(path, sorted) ==
    IF sorted = <<>> THEN <<>>
    ELSE <<[path |-> Join(path, Head(sorted).name), name |-> Head(sorted).name,
            isDir |-> Head(sorted).isDir]>> \o Children(path, Tail(sorted))

\* What d.Info, FilePreview and os.ReadFile answer for a file: an error at any
\* of the three, or a size, a text/binary verdict and the content.  The exact
\* size is one that fills the output up to the ceiling.
FileSizes(exact) == {10, 600000} \cup (IF exact > 0 THEN {exact} ELSE {})

FileAnswers(exact) ==
    {[infoErr |-> TRUE, size |-> 0, previewErr |-> FALSE, isText |-> FALSE,
      readErr |-> FALSE]}
    \cup { a \in [infoErr : {FALSE}, size : FileSizes(exact), previewErr : BOOLEAN,
                  isText : BOOLEAN, readErr : BOOLEAN] :
            \* a call that is never made has no answer
            /\ a.previewErr => ~a.isText
            /\ (a.previewErr \/ ~a.isText) => ~a.readErr }

(***************************************************************************)
(* State                                                                   *)
(***************************************************************************)

VARIABLES
    configStack,  \* the ConfigStack: layers, cache, rootDir, homeDir
    flags,        \* the parsed command line
    pushedDirs,   \* main: directories whose layer the driver pushed
    currentPath,  \* main: the directory entered last ("" before the first)
    totalSize,    \* main: bytes gathered in builder
    builder,      \* main: the blocks gathered, in order
    todo,         \* walker: entries still to pass to the callback, in order
    pc,           \* "walk" | "readdir" | "done" | "fatal" ("api" for the stack alone)
    cur,          \* the entry the callback handled last
    used,         \* the configuration the callback used for cur
    reads,        \* how often each directory's config path was opened
    descended,    \* directories whose entries the walker listed
    produced,     \* entries the walker has listed so far
    sink,         \* the clipboard: what was written, if anything
    failure,      \* why the run ended in log.Fatal
    op,           \* the last ConfigStack call and its result
    base,         \* the layers NewConfigStack built
    twin,         \* the same walk by a second run of the program
    heap          \* the Config records and string arrays the stack points to

vars == <<configStack, flags, pushedDirs, currentPath, totalSize, builder, todo,
          pc, cur, used, reads, descended, produced, sink, failure, op, base, twin, heap>>

NotWritten == [written |-> FALSE, size |-> 0]
Written(n) == [written |-> TRUE, size |-> n]

NoEntry == [path |-> <<>>, name |-> <<>>, isDir |-> FALSE]

\* Nothing used yet: no entry was handled
NoUse ==
    [layers |-> <<>>, config |-> DefaultConfig, include |-> <<>>, exclude |-> <<>>,
     outcome |-> "none", fileSize |-> 0]

NoOp == [name |-> "none", dir |-> <<>>, ret |-> FALSE]

\* Nothing allocated
NoHeap == [objs |-> <<>>, arrs |-> <<>>]

\* No second run
NoTwin ==
    [cs |-> [layers |-> <<>>, cache |-> <<>>, rootDir |-> <<>>, homeDir |-> <<>>],
     pushedDirs |-> {}, currentPath |-> <<>>, used |-> NoUse]

\* reads[dir] + 1
CountRead(r, dir) ==
    [x \in (DOMAIN r) \cup {dir} |->
        (IF x \in DOMAIN r THEN r[x] ELSE 0) + (IF x = dir THEN 1 ELSE 0)]

\* The disk reads NewConfigStack makes: home's config path when the home
\* directory resolves, root's when root differs from home
ReadsOfNew(rootDir, homeDir) ==
    LET r1 == IF homeDir # NoHome THEN CountRead(<<>>, homeDir) ELSE <<>>
    IN  IF rootDir # homeDir THEN CountRead(r1, rootDir) ELSE r1

RECURSIVE LayerDirs(_)
LayerDirs(ls) ==
    IF ls = <<>> THEN <<>> ELSE <<Head(ls).Directory>> \o LayerDirs(Tail(ls))

\* Flags given on the command line
FlagsGiven(f) ==
    Cardinality({ k \in {"delimiter", "max-size", "include", "exclude", "no-recursive"} :
                    \/ k = "delimiter" /\ f.delimiterSet
                    \/ k = "max-size" /\ f.maxSizeSet
                    \/ k = "include" /\ f.includeSetFlag
                    \/ k = "exclude" /\ f.excludeSetFlag
                    \/ k = "no-recursive" /\ f.noRecursiveSet })

\* Config files the stack has found: every one is a layer or a cache entry
ConfigsFound(stack) ==
    Cardinality({ i \in 1..Len(stack.layers) :
                    stack.layers[i].Directory \notin DOMAIN stack.cache })
    + Cardinality({ d \in DOMAIN stack.cache : stack.cache[d] # Nil })

\* What the next config path opened can hold, within MaxSettings
ConfigFilesWithin(stack, f) ==
    IF ConfigsFound(stack) + FlagsGiven(f) < MaxSettings
    THEN ConfigFiles ELSE {Absent, Unreadable}

\* The entries of the tree walked: one fewer when the run takes settings
\* from the command line or from the home directory, or includes hidden
\* entries
EntryBudget(stack, f) ==
    IF /\ f = NoFlags
       /\ stack.layers = <<>> \/ stack.layers[1].Directory # stack.homeDir
       /\ \A i \in DOMAIN stack.layers :
             \A k \in DOMAIN stack.layers[i].Config.Include :
               stack.layers[i].Config.Include[k] # sHidden
    THEN MaxEntries ELSE MaxEntries - 1

(***************************************************************************)
(* main: a run of the driver                                               *)
(***************************************************************************)

\* main up to the call of filepath.WalkDir
Init ==
    \E f \in FlagChoices, homeFile \in ConfigFiles, rootFile \in RootConfigFiles :
        /\ configStack = NewConfigStack(RootDir, OutsideHome, homeFile, rootFile)
        /\ ConfigsFound(configStack) + FlagsGiven(f) <= MaxSettings
        /\ flags = f
        /\ pushedDirs = {}
        /\ currentPath = <<>>
        /\ totalSize = 0
        /\ builder = <<>>
        /\ todo = <<[path |-> RootDir, name |-> RootName, isDir |-> TRUE]>>
        /\ pc = "walk"
        /\ cur = NoEntry
        /\ used = NoUse
        /\ reads = ReadsOfNew(RootDir, OutsideHome)
        /\ descended = {}
        /\ produced = 0
        /\ sink = NotWritten
        /\ failure = "none"
        /\ op = NoOp
        /\ base = configStack.layers
        /\ twin = NoTwin
        /\ heap = NoHeap

\* What the callback computes for every entry before it decides
Use(stack, f) ==
    LET effectiveConfig == ApplyOverrides(GetEffectiveConfig(stack), f)
    IN  [layers  |-> LayerDirs(stack.layers),
         config  |-> effectiveConfig,
         include |-> IncludePatterns(effectiveConfig, f),
         exclude |-> ExcludePatterns(effectiveConfig, f),
         outcome |-> "none", fileSize |-> 0]

\* Excluded, or hidden and not included
Skipped(d, u, f) ==
    LET relPath == RelPathForMatch(RootDir, d.path)
    IN  \/ ShouldExclude(d.name, relPath, u.include, u.exclude, cliExcludePatterns(f))
        \/ SkipHidden(d.name, relPath, u.include)

\* A callback that never answers SkipDir for no-recursive
SkipNoSubdirectory(effectiveConfig, path, dir) == FALSE

\* if effectiveConfig.NoRecursive && path != dir
SkipSubdirectory(effectiveConfig, path, dir) ==
    effectiveConfig.NoRecursive /\ path # dir

\* The stacks and pushedDirs the pop loop can leave on entering the callback
AfterPopLoop(d) ==
    IF currentPath # <<>> /\ d.isDir
    THEN PopLeftDirs(configStack, pushedDirs, d.path)
    ELSE { [cs |-> configStack, pushedDirs |-> pushedDirs] }

\* The callback on a directory (err == nil)
CallbackDir ==
    /\ pc = "walk" /\ todo # <<>> /\ Head(todo).isDir
    /\ LET d == Head(todo) IN
       \E popped \in AfterPopLoop(d) :
       \E file \in ConfigFilesWithin(popped.cs, flags) :
         LET u == Use(popped.cs, flags)
             skip == Skipped(d, u, flags)
             res == IF d.path # RootDir
                    THEN PushIfExists(popped.cs, d.path, file)
                    ELSE [cs |-> popped.cs, ret |-> FALSE, read |-> FALSE]
             pushed == IF res.ret THEN popped.pushedDirs \cup {d.path}
                       ELSE popped.pushedDirs
             norec == SkipSubdirectory(u.config, d.path, RootDir)
         IN  /\ cur' = d
             /\ todo' = Tail(todo)
             /\ IF skip
                THEN /\ used' = [u EXCEPT !.outcome = "skipdir"]
                     /\ configStack' = popped.cs
                     /\ pushedDirs' = popped.pushedDirs
                     /\ pc' = "walk"
                     /\ UNCHANGED <<currentPath, reads>>
                ELSE /\ currentPath' = d.path
                     /\ reads' = IF res.read THEN CountRead(reads, d.path) ELSE reads
                     /\ IF norec
                        THEN /\ used' = [u EXCEPT !.outcome = "norecursive"]
                             /\ configStack' = IF d.path \in pushed
                                               THEN Pop(res.cs, d.path) ELSE res.cs
                             /\ pushedDirs' = pushed \ {d.path}
                             /\ pc' = "walk"
                        ELSE /\ used' = [u EXCEPT !.outcome = "enter"]
                             /\ configStack' = res.cs
                             /\ pushedDirs' = pushed
                             /\ pc' = "readdir"
    /\ UNCHANGED <<flags, totalSize, builder, descended, produced, sink, failure, op, base, twin, heap>>

\* walkDir lists the directory the callback returned nil for
ReadDirOk ==
    /\ pc = "readdir"
    /\ \E S \in Listings(EntryBudget(configStack, flags) - produced) :
        /\ todo' = Children(cur.path, SortEntries(S)) \o todo
        /\ produced' = produced + Cardinality(S)
    /\ descended' = descended \cup {cur.path}
    /\ pc' = "walk"
    /\ UNCHANGED <<configStack, flags, pushedDirs, currentPath, totalSize, builder,
                   cur, used, reads, sink, failure, op, base, twin, heap>>

\* os.ReadDir fails: walkDir calls the callback again with the error, the
\* callback returns it, WalkDir returns it and main ends in log.Fatal
ReadDirErr ==
    /\ pc = "readdir"
    /\ pc' = "fatal"
    /\ failure' = "walk"
    /\ UNCHANGED <<configStack, flags, pushedDirs, currentPath, totalSize, builder,
                   todo, cur, used, reads, descended, produced, sink, op, base, twin, heap>>

\* What the callback finds of a file that passed the filters, in the order of
\* its tests
FileOutcome(a, maxSizeKB, total, size) ==
    IF a.infoErr THEN "infoerr"
    ELSE IF TooLarge(a.size, maxSizeKB) THEN "large"
    ELSE IF a.previewErr THEN "previewerr"
    ELSE IF ~a.isText THEN "binary"
    ELSE IF a.readErr THEN "readerr"
    ELSE IF ExceedsLimit(total, size) THEN "overflow"
    ELSE "emit"

\* A callback that also returns the error of os.ReadFile
ReturnsErrorOnReadFailure(outcome) == outcome \in {"overflow", "readerr"}

\* Whether the callback returns an error for the file (else nil)
ReturnsError(outcome) == outcome = "overflow"

\* The callback on a file
CallbackFile ==
    /\ pc = "walk" /\ todo # <<>> /\ ~Head(todo).isDir
    /\ LET d == Head(todo)
           u == Use(configStack, flags)
           relOut == RelPathForOutput(RootDir, d.path)
           exact == maxTotalSize - totalSize - FileSize(relOut, u.config.Delimiter, 0)
       IN
       /\ cur' = d
       /\ todo' = Tail(todo)
       /\ IF Skipped(d, u, flags)
          THEN /\ used' = [u EXCEPT !.outcome = "skip"]
               /\ UNCHANGED <<totalSize, builder, pc, failure>>
          ELSE \E a \in FileAnswers(exact) :
               LET size == FileSize(relOut, u.config.Delimiter, a.size)
                   outcome == FileOutcome(a, u.config.MaxSizeKB, totalSize, size)
               IN  /\ used' = [u EXCEPT !.outcome = outcome,
                                        !.fileSize = IF outcome \in {"overflow", "emit"}
                                                     THEN size ELSE 0]
                   /\ IF outcome = "emit"
                      THEN /\ builder' = Append(builder,
                                                [path |-> relOut,
                                                 delimiter |-> u.config.Delimiter,
                                                 size |-> size])
                           /\ totalSize' = totalSize + size
                      ELSE UNCHANGED <<totalSize, builder>>
                   /\ IF ReturnsError(outcome)
                      THEN pc' = "fatal" /\ failure' = "size"
                      ELSE UNCHANGED <<pc, failure>>
    /\ UNCHANGED <<configStack, flags, pushedDirs, currentPath, reads, descended,
                   produced, sink, op, base, twin, heap>>

\* WalkDir returned nil: clipboard.WriteAll(builder.String())
WriteClipboard ==
    /\ pc = "walk" /\ todo = <<>>
    /\ pc' = "done"
    /\ \E ok \in BOOLEAN : sink' = IF ok THEN Written(totalSize) ELSE NotWritten
    /\ UNCHANGED <<configStack, flags, pushedDirs, currentPath, totalSize, builder,
                   todo, cur, used, reads, descended, produced, failure, op, base, twin, heap>>

Next == CallbackDir \/ ReadDirOk \/ ReadDirErr \/ CallbackFile \/ WriteClipboard

Spec == Init /\ [][Next]_vars

(***************************************************************************)
(* The ConfigStack alone, under arbitrary calls of its methods             *)
(***************************************************************************)

\* A stack holds at most this many layers
MaxLayers == 3

\* The directories the methods are called with
StackDirs == {RootDir, OutsideHome, InsideHome, Join(RootDir, sDirB)}

\* NewConfigStack(rootDir, ...) with any home directory and any two files
InitStack ==
    \E homeDir \in HomeDirs, homeFile \in ConfigFiles, rootFile \in ConfigFiles :
        /\ configStack = NewConfigStack(RootDir, homeDir, homeFile, rootFile)
        /\ ConfigsFound(configStack) <= MaxSettings
        /\ reads = ReadsOfNew(RootDir, homeDir)
        /\ base = configStack.layers
        /\ twin = NoTwin
        /\ heap = NoHeap
        /\ op = NoOp
        /\ pc = "api"
        /\ flags = NoFlags
        /\ pushedDirs = {}
        /\ currentPath = <<>>
        /\ totalSize = 0
        /\ builder = <<>>
        /\ todo = <<>>
        /\ cur = NoEntry
        /\ used = NoUse
        /\ descended = {}
        /\ produced = 0
        /\ sink = NotWritten
        /\ failure = "none"

\* cs.PushIfExists(dir)
CallPushIfExists ==
    /\ pc = "api"
    /\ Len(configStack.layers) < MaxLayers
    /\ \E dir \in StackDirs, file \in ConfigFilesWithin(configStack, NoFlags) :
       LET res == PushIfExists(configStack, dir, file)
       IN  /\ res.read \/ file = Absent  \* a file that is not opened holds nothing
           /\ configStack' = res.cs
           /\ reads' = IF res.read THEN CountRead(reads, dir) ELSE reads
           /\ op' = [name |-> "PushIfExists", dir |-> dir, ret |-> res.ret]
    /\ UNCHANGED <<flags, pushedDirs, currentPath, totalSize, builder, todo, pc, cur,
                   used, descended, produced, sink, failure, base, twin, heap>>

\* cs.Pop(dir)
CallPop ==
    /\ pc = "api"
    /\ \E dir \in StackDirs :
        /\ configStack' = Pop(configStack, dir)
        /\ op' = [name |-> "Pop", dir |-> dir, ret |-> FALSE]
    /\ UNCHANGED <<flags, pushedDirs, currentPath, totalSize, builder, todo, pc, cur,
                   used, reads, descended, produced, sink, failure, base, twin, heap>>

\* cs.GetEffectiveConfig()
CallGetEffectiveConfig ==
    /\ pc = "api"
    /\ op' = [name |-> "GetEffectiveConfig", dir |-> <<>>, ret |-> FALSE]
    /\ UNCHANGED <<configStack, flags, pushedDirs, currentPath, totalSize, builder, todo,
                   pc, cur, used, reads, descended, produced, sink, failure, base, twin, heap>>

NextStack == CallPushIfExists \/ CallPop \/ CallGetEffectiveConfig

SpecStack == InitStack /\ [][NextStack]_vars

(***************************************************************************)
(* The ConfigStack from its construction on, over config paths that are    *)
(* missing, cannot be opened, or open and then fail to be read             *)
(***************************************************************************)

\* A second size limit, so that home and root can disagree
cfgMaxSize64 == <<kMaxSize \o sEq \o s64>>

\* Config paths whose read fails: at once (a directory named .clip4llm), or
\* after a first line
FailingConfigFiles == {ReadFails(<<>>), ReadFails(cfgExcludeMd)}

\* What the .clip4llm of the home directory and of a subdirectory can hold
LoadConfigFiles == ConfigFiles \cup FailingConfigFiles

\* What the .clip4llm of the working directory can hold
LoadRootConfigFiles == LoadConfigFiles \cup {FileOf(cfgMaxSize64)}

\* What the next config path opened can hold, within MaxSettings
LoadConfigFilesWithin(stack) ==
    IF ConfigsFound(stack) < MaxSettings THEN LoadConfigFiles ELSE {Absent, Unreadable}

\* The directories the walk probes
LoadDirs == {RootDir, InsideHome, Join(RootDir, sDirB)}

\* cs := NewConfigStack(rootDir) over those files
InitLoad ==
    \E homeDir \in HomeDirs, homeFile \in LoadConfigFiles,
       rootFile \in LoadRootConfigFiles :
        /\ configStack = NewConfigStack(RootDir, homeDir, homeFile, rootFile)
        /\ ConfigsFound(configStack) <= MaxSettings
        /\ reads = ReadsOfNew(RootDir, homeDir)
        /\ base = configStack.layers
        /\ twin = NoTwin
        /\ heap = NoHeap
        /\ op = NoOp
        /\ pc = "load"
        /\ flags = NoFlags
        /\ pushedDirs = {}
        /\ currentPath = <<>>
        /\ totalSize = 0
        /\ builder = <<>>
        /\ todo = <<>>
        /\ cur = NoEntry
        /\ used = NoUse
        /\ descended = {}
        /\ produced = 0
        /\ sink = NotWritten
        /\ failure = "none"

\* cs.PushIfExists(dir), whatever dir's config path holds; opened is what the
\* call met at that path, "none" when it did not go to the disk
LoadPushIfExists ==
    /\ pc = "load"
    /\ Len(configStack.layers) < MaxLayers
    /\ \E dir \in LoadDirs, file \in LoadConfigFilesWithin(configStack) :
       LET res == PushIfExists(configStack, dir, file)
       IN  /\ res.read \/ file = Absent  \* a file that is not opened holds nothing
           /\ configStack' = res.cs
           /\ reads' = IF res.read THEN CountRead(reads, dir) ELSE reads
           /\ op' = [name |-> "PushIfExists", dir |-> dir, ret |-> res.ret,
                     opened |-> IF res.read THEN file.kind ELSE "none"]
    /\ UNCHANGED <<flags, pushedDirs, currentPath, totalSize, builder, todo, pc, cur,
                   used, descended, produced, sink, failure, base, twin, heap>>

\* cs.Pop(dir)
LoadPop ==
    /\ pc = "load"
    /\ \E dir \in LoadDirs :
        /\ configStack' = Pop(configStack, dir)
        /\ op' = [name |-> "Pop", dir |-> dir, ret |-> FALSE]
    /\ UNCHANGED <<flags, pushedDirs, currentPath, totalSize, builder, todo, pc, cur,
                   used, reads, descended, produced, sink, failure, base, twin, heap>>

NextLoad == LoadPushIfExists \/ LoadPop

SpecLoad == InitLoad /\ [][NextLoad]_vars

(***************************************************************************)
(* GetEffectiveConfig and mergeConfig alone, on any stack of layers        *)
(***************************************************************************)

sMinusOne   == <<"-", "1">>
sFalse      == <<"f", "a", "l", "s", "e">>
sComment    == <<"#", " ", "c">>
sStarMdThenReadme == sStarMd \o <<",", " ">> \o sReadme

\* Config files that between them set and leave unset every field
fileDashes    == <<kDelimiter \o sEq \o sDashes>>
fileEquals64  == <<kDelimiter \o sEq \o sEq \o sEq, <<>>, kMaxSize \o sEq \o s64>>
file1024      == <<kMaxSize \o sEq \o s1024>>
fileUnset     == <<sComment, kMaxSize \o sEq \o sMinusOne, kNoRecursive \o sEq \o sFalse>>
fileNoRecExcl == <<kNoRecursive \o sEq \o sTrue, kExclude \o sEq \o sStarMd>>
fileLists     == <<kInclude \o sEq \o sStarMdThenReadme, kExclude \o sEq \o sStarMd>>
fileReadme    == <<kInclude \o <<" ">> \o sEq \o <<" ">> \o sReadme>>

\* The configurations loadConfigFromFile gives for them
MergeConfigs ==
    { loadConfigFromFile(FileOf(lines)) :
        lines \in {fileDashes, fileEquals64, file1024, fileUnset, fileNoRecExcl,
                   fileLists, fileReadme} }

\* The directory of the i-th layer: the root, then one level deeper each
RECURSIVE NestedDir(_)
NestedDir(i) == IF i <= 1 THEN RootDir ELSE Join(NestedDir(i - 1), sDirA)

\* A stack of at most MaxLayers layers, each with any of the configurations
InitMerge ==
    \E n \in 0..MaxLayers : \E cfgs \in [1..n -> MergeConfigs] :
        /\ configStack = [layers |-> [i \in 1..n |-> Layer(NestedDir(i), cfgs[i])],
                          cache |-> <<>>, rootDir |-> RootDir, homeDir |-> NoHome]
        /\ base = <<>>
        /\ twin = NoTwin
        /\ heap = NoHeap
        /\ used = NoUse
        /\ op = NoOp
        /\ pc = "merge"
        /\ reads = <<>>
        /\ flags = NoFlags
        /\ pushedDirs = {}
        /\ currentPath = <<>>
        /\ totalSize = 0
        /\ builder = <<>>
        /\ todo = <<>>
        /\ cur = NoEntry
        /\ descended = {}
        /\ produced = 0
        /\ sink = NotWritten
        /\ failure = "none"

\* One pass of the loop of GetEffectiveConfig: mergeConfig(effective,
\* layer.Config) for the next layer; used.config is the accumulator
MergeNextLayer ==
    /\ pc = "merge"
    /\ Len(used.layers) < Len(configStack.layers)
    /\ LET layer == configStack.layers[Len(used.layers) + 1]
       IN  /\ used' = [used EXCEPT !.config = mergeConfig(@, layer.Config),
                                   !.layers = Append(@, layer.Directory)]
           /\ op' = [name |-> "mergeConfig", dir |-> layer.Directory, ret |-> FALSE]
    /\ UNCHANGED <<configStack, flags, pushedDirs, currentPath, totalSize, builder, todo,
                   pc, cur, reads, descended, produced, sink, failure, base, twin, heap>>

\* mergeConfig(effective, nil)
MergeNilLayer ==
    /\ pc = "merge"
    /\ used' = [used EXCEPT !.config = mergeConfig(@, Nil)]
    /\ op' = [name |-> "mergeConfig", dir |-> <<>>, ret |-> FALSE]
    /\ UNCHANGED <<configStack, flags, pushedDirs, currentPath, totalSize, builder, todo,
                   pc, cur, reads, descended, produced, sink, failure, base, twin, heap>>

\* cs.GetEffectiveConfig() on the whole stack
GetOfStack ==
    /\ pc = "merge"
    /\ op' = [name |-> "GetEffectiveConfig", dir |-> <<>>,
              ret |-> GetEffectiveConfig(configStack) = used.config]
    /\ UNCHANGED <<configStack, flags, pushedDirs, currentPath, totalSize, builder, todo,
                   pc, cur, used, reads, descended, produced, sink, failure, base, twin, heap>>

NextMerge == MergeNextLayer \/ MergeNilLayer \/ GetOfStack

SpecMerge == InitMerge /\ [][NextMerge]_vars

(***************************************************************************)
(* Two runs over the same tree: with --exclude and without it              *)
(***************************************************************************)

\* The command line without --exclude
WithoutExclude(f) == [f EXCEPT !.excludeSetFlag = FALSE, !.exclude = <<>>]

\* The command lines that give --exclude
ExcludeChoices ==
    {[NoFlags EXCEPT !.excludeSetFlag = TRUE, !.exclude = sDirA],
     [NoFlags EXCEPT !.excludeSetFlag = TRUE, !.exclude = sDirAStarMd],
     [NoFlags EXCEPT !.includeSetFlag = TRUE, !.include = sStarMd,
                     !.excludeSetFlag = TRUE, !.exclude = sStarMd]}

\* The callback on directory d in a run that is in (stack, pushed, curPath):
\* the states it can leave the run in, file being what d's config path holds
DirVisits(stack, pushed, curPath, d, file, f) ==
    LET after == IF curPath # <<>> /\ d.isDir
                 THEN PopLeftDirs(stack, pushed, d.path)
                 ELSE { [cs |-> stack, pushedDirs |-> pushed] }
    IN  { LET u == Use(popped.cs, f)
              res == IF d.path # RootDir
                     THEN PushIfExists(popped.cs, d.path, file)
                     ELSE [cs |-> popped.cs, ret |-> FALSE, read |-> FALSE]
              pushedNow == IF res.ret THEN popped.pushedDirs \cup {d.path}
                           ELSE popped.pushedDirs
          IN  IF Skipped(d, u, f)
              THEN [cs |-> popped.cs, pushedDirs |-> popped.pushedDirs,
                    currentPath |-> curPath, used |-> [u EXCEPT !.outcome = "skipdir"]]
              ELSE IF SkipSubdirectory(u.config, d.path, RootDir)
              THEN [cs |-> IF d.path \in pushedNow THEN Pop(res.cs, d.path) ELSE res.cs,
                    pushedDirs |-> pushedNow \ {d.path},
                    currentPath |-> d.path, used |-> [u EXCEPT !.outcome = "norecursive"]]
              ELSE [cs |-> res.cs, pushedDirs |-> pushedNow,
                    currentPath |-> d.path, used |-> [u EXCEPT !.outcome = "enter"]]
          : popped \in after }

\* The callback on file d up to the filters: skipped by them, or passed on to
\* the size and content tests
FileVisit(stack, d, f) ==
    LET u == Use(stack, f)
    IN  [u EXCEPT !.outcome = IF Skipped(d, u, f) THEN "skip" ELSE "pass"]

\* Both runs start on a working directory whose subdirectories hold nothing
\* but a config file
InitTwin ==
    \E f \in ExcludeChoices, homeFile \in ConfigFiles, rootFile \in ConfigFiles,
       S \in Listings(MaxEntries) :
        /\ configStack = NewConfigStack(RootDir, OutsideHome, homeFile, rootFile)
        /\ ConfigsFound(configStack) + FlagsGiven(f) <= MaxSettings
        /\ flags = f
        /\ pushedDirs = {}
        /\ currentPath = <<>>
        /\ totalSize = 0
        /\ builder = <<>>
        /\ todo = <<[path |-> RootDir, name |-> RootName, isDir |-> TRUE]>>
                  \o Children(RootDir, SortEntries(S))
        /\ pc = "twin"
        /\ cur = NoEntry
        /\ used = NoUse
        /\ reads = <<>>
        /\ descended = {}
        /\ produced = Cardinality(S)
        /\ sink = NotWritten
        /\ failure = "none"
        /\ op = NoOp
        /\ base = configStack.layers
        /\ twin = [cs |-> configStack, pushedDirs |-> {}, currentPath |-> <<>>,
                   used |-> NoUse]
        /\ heap = NoHeap

\* The callback of both runs on the next directory
TwinCallbackDir ==
    /\ pc = "twin" /\ todo # <<>> /\ Head(todo).isDir
    /\ LET d == Head(todo) IN
       \E file \in ConfigFilesWithin(configStack, flags)
                    \cap ConfigFilesWithin(twin.cs, flags) :
       \E r \in DirVisits(configStack, pushedDirs, currentPath, d, file, flags) :
       \E t \in DirVisits(twin.cs, twin.pushedDirs, twin.currentPath, d, file,
                          WithoutExclude(flags)) :
         /\ cur' = d
         /\ todo' = Tail(todo)
         /\ configStack' = r.cs
         /\ pushedDirs' = r.pushedDirs
         /\ currentPath' = r.currentPath
         /\ used' = r.used
         /\ twin' = t
    /\ UNCHANGED <<flags, totalSize, builder, pc, reads, descended, produced, sink,
                   failure, op, base, heap>>

\* The callback of both runs on the next file
TwinCallbackFile ==
    /\ pc = "twin" /\ todo # <<>> /\ ~Head(todo).isDir
    /\ LET d == Head(todo) IN
         /\ cur' = d
         /\ todo' = Tail(todo)
         /\ used' = FileVisit(configStack, d, flags)
         /\ twin' = [twin EXCEPT !.used = FileVisit(twin.cs, d, WithoutExclude(flags))]
    /\ UNCHANGED <<configStack, flags, pushedDirs, currentPath, totalSize, builder, pc,
                   reads, descended, produced, sink, failure, op, base, heap>>

NextTwin == TwinCallbackDir \/ TwinCallbackFile

SpecTwin == InitTwin /\ [][NextTwin]_vars

(***************************************************************************)
(* matchesAnyPatternWithPath alone, on any name, path and pattern list     *)
(***************************************************************************)

\* A pattern list holds at most this many patterns
MaxPatterns == 2

sDotSlashA   == <<".", "/", "A">>
sAOtherMd    == <<"A", "/", "o", ".", "m", "d">>
sASlashStar  == <<"A", "/", "*">>
sOpenClass   == <<"[">>
sAOpenClass  == <<"A", "[">>

\* The names, relative paths and patterns the function is called on: paths
\* empty, with "./" once and twice, without it, and hidden; patterns empty,
\* on names, on paths, and malformed
MatchNames == {sDirA, sOtherMd, sHidden}

MatchRelPaths ==
    {<<>>, sDotSlashA, <<".", "/">> \o sDotSlashA, <<".", "/">> \o sAOtherMd,
     sAOtherMd, sHidden}

MatchPatterns ==
    {<<>>, sDirA, sStarMd, sDotSlashA, sASlashStar, sOpenClass, sAOpenClass}

PatternLists == UNION { [1..n -> MatchPatterns] : n \in 0..MaxPatterns }

\* No call yet, the arguments chosen
InitMatch ==
    \E name \in MatchNames, relPath \in MatchRelPaths, patterns \in PatternLists :
        /\ op = [name |-> "none", dir |-> <<>>, ret |-> FALSE,
                 args |-> [name |-> name, relPath |-> relPath, patterns |-> patterns]]
        /\ configStack = NewConfigStack(RootDir, NoHome, Absent, Absent)
        /\ flags = NoFlags
        /\ pushedDirs = {}
        /\ currentPath = <<>>
        /\ totalSize = 0
        /\ builder = <<>>
        /\ todo = <<>>
        /\ pc = "match"
        /\ cur = NoEntry
        /\ used = NoUse
        /\ reads = <<>>
        /\ descended = {}
        /\ produced = 0
        /\ sink = NotWritten
        /\ failure = "none"
        /\ base = <<>>
        /\ twin = NoTwin
        /\ heap = NoHeap

\* matchesAnyPatternWithPath(name, relPath, patterns): it reads its arguments
\* and writes nothing but its result
CallMatchesAnyPattern ==
    /\ pc = "match"
    /\ op' = [op EXCEPT !.name = "matchesAnyPatternWithPath",
                        !.ret = matchesAnyPatternWithPath(op.args.name, op.args.relPath,
                                                          op.args.patterns)]
    /\ UNCHANGED <<configStack, flags, pushedDirs, currentPath, totalSize, builder,
                   todo, pc, cur, used, reads, descended, produced, sink, failure,
                   base, twin, heap>>

NextMatch == CallMatchesAnyPattern

SpecMatch == InitMatch /\ [][NextMatch]_vars

(***************************************************************************)
(* One config file of several lines, loaded and pushed as a layer          *)
(***************************************************************************)

\* A config file holds at most this many lines
MaxLines == 3

lineMaxSize64    == kMaxSize \o sEq \o s64
lineMaxSize1024  == kMaxSize \o sEq \o s1024
lineMaxSizeAbc   == kMaxSize \o sEq \o <<"a", "b", "c">>
lineMaxSizeNone  == kMaxSize \o sEq
lineNoRecTrue    == kNoRecursive \o sEq \o sTrue
lineNoRecFalse   == kNoRecursive \o <<" ">> \o sEq \o <<"f", "a", "l", "s", "e">>
lineNoRecYes     == kNoRecursive \o sEq \o <<"y", "e", "s">>
lineIncludeMd    == kInclude \o sEq \o sStarMd
lineIncludeTwo   == kInclude \o sEq \o sReadme \o <<",", " ">> \o sDirA
lineExcludeMd    == kExclude \o sEq \o sStarMd
lineExcludeA     == <<" ">> \o kExclude \o sEq \o sDirA
lineDelimiter    == kDelimiter \o sEq \o sDashes

\* The lines a config file is made of
ConfigLines ==
    {lineMaxSize64, lineMaxSize1024, lineMaxSizeAbc, lineMaxSizeNone, lineNoRecTrue,
     lineNoRecFalse, lineNoRecYes, lineIncludeMd, lineIncludeTwo, lineExcludeMd,
     lineExcludeA, lineDelimiter}

\* The directory whose config file is loaded
ParsedDir == Join(RootDir, sDirB)

\* A stack with or without a root layer, and the lines of ParsedDir's file
InitParse ==
    \E n \in 0..MaxLines, rootFile \in {Absent, FileOf(cfgMaxSize), FileOf(cfgExcludeMd)} :
      \E lines \in [1..n -> ConfigLines] :
        /\ configStack = NewConfigStack(RootDir, NoHome, Absent, rootFile)
        /\ base = configStack.layers
        /\ op = [name |-> "none", dir |-> ParsedDir, ret |-> FALSE, lines |-> lines]
        /\ pc = "parse"
        /\ reads = ReadsOfNew(RootDir, NoHome)
        /\ flags = NoFlags
        /\ pushedDirs = {}
        /\ currentPath = <<>>
        /\ totalSize = 0
        /\ builder = <<>>
        /\ todo = <<>>
        /\ cur = NoEntry
        /\ used = NoUse
        /\ descended = {}
        /\ produced = 0
        /\ sink = NotWritten
        /\ failure = "none"
        /\ twin = NoTwin
        /\ heap = NoHeap

\* cs.PushIfExists(dir) on the file of those lines
ParsePushIfExists ==
    /\ pc = "parse" /\ op.name = "none"
    /\ LET res == PushIfExists(configStack, op.dir, FileOf(op.lines))
       IN  /\ configStack' = res.cs
           /\ reads' = IF res.read THEN CountRead(reads, op.dir) ELSE reads
           /\ op' = [op EXCEPT !.name = "PushIfExists", !.ret = res.ret]
    /\ UNCHANGED <<flags, pushedDirs, currentPath, totalSize, builder, todo, pc, cur,
                   used, descended, produced, sink, failure, base, twin, heap>>

NextParse == ParsePushIfExists

SpecParse == InitParse /\ [][NextParse]_vars

(***************************************************************************)
(* parseCommaSeparated alone, on any short input                           *)
(***************************************************************************)

\* An input holds at most this many characters
MaxInput == 4

\* The characters of an input: two of a pattern, the comma, two white spaces
InputChars == {"a", "*", ",", " ", "\t"}

\* No call yet, the input chosen
InitList ==
    \E n \in 0..MaxInput : \E input \in [1..n -> InputChars] :
        /\ op = [name |-> "none", dir |-> <<>>, ret |-> <<>>, input |-> input]
        /\ pc = "list"
        /\ configStack = NewConfigStack(RootDir, NoHome, Absent, Absent)
        /\ base = <<>>
        /\ reads = <<>>
        /\ flags = NoFlags
        /\ pushedDirs = {}
        /\ currentPath = <<>>
        /\ totalSize = 0
        /\ builder = <<>>
        /\ todo = <<>>
        /\ cur = NoEntry
        /\ used = NoUse
        /\ descended = {}
        /\ produced = 0
        /\ sink = NotWritten
        /\ failure = "none"
        /\ twin = NoTwin
        /\ heap = NoHeap

\* parseCommaSeparated(input)
CallParseCommaSeparated ==
    /\ pc = "list" /\ op.name = "none"
    /\ op' = [op EXCEPT !.name = "parseCommaSeparated",
                        !.ret = parseCommaSeparated(op.input)]
    /\ UNCHANGED <<configStack, flags, pushedDirs, currentPath, totalSize, builder,
                   todo, pc, cur, used, reads, descended, produced, sink, failure,
                   base, twin, heap>>

NextList == CallParseCommaSeparated

SpecList == InitList /\ [][NextList]_vars

(***************************************************************************)
(* The callback on one file, call by call: filters, d.Info, the size test, *)
(* FilePreview, os.ReadFile, the block appended                            *)
(***************************************************************************)

\* The command lines: none, and a size limit
FileFlagChoices == {NoFlags, [NoFlags EXCEPT !.maxSizeSet = TRUE, !.maxSize = 64]}

\* What the working directory's .clip4llm holds
FileRootConfigs ==
    {Absent, FileOf(cfgExcludeMd), FileOf(cfgMaxSize), FileOf(cfgIncludeHidden)}

\* The files of the working directory, as the walker passes them
FilesOfRoot == { [path |-> Join(RootDir, e.name), name |-> e.name, isDir |-> FALSE] :
                   e \in FileEntries }

\* What the disk holds for the file: what d.Info, FilePreview and os.ReadFile
\* would answer if called, the size one below, at and one above the limit
DiskFacts(maxSizeKB) ==
    [infoErr : BOOLEAN,
     size : {maxSizeKB * 1024 - 1, maxSizeKB * 1024, maxSizeKB * 1024 + 1},
     previewErr : BOOLEAN, isText : BOOLEAN, readErr : BOOLEAN]

\* The callback is entered for a file; nothing was asked of the disk yet
InitFile ==
    \E f \in FileFlagChoices, rootFile \in FileRootConfigs, d \in FilesOfRoot :
      LET stack == NewConfigStack(RootDir, NoHome, Absent, rootFile)
      IN  \E a \in DiskFacts(Use(stack, f).config.MaxSizeKB) :
            /\ configStack = stack
            /\ flags = f
            /\ cur = d
            /\ op = [name |-> "callback", dir |-> <<>>, ret |-> FALSE,
                     disk |-> a, calls |-> <<>>]
            /\ pc = "filters"
            /\ used = NoUse
            /\ pushedDirs = {}
            /\ currentPath = RootDir
            /\ totalSize = 0
            /\ builder = <<>>
            /\ todo = <<>>
            /\ reads = <<>>
            /\ descended = {}
            /\ produced = 0
            /\ sink = NotWritten
            /\ failure = "none"
            /\ base = stack.layers
            /\ twin = NoTwin
            /\ heap = NoHeap

\* The effective configuration, then the exclusion and hidden tests
FileFilters ==
    /\ pc = "filters"
    /\ LET u == Use(configStack, flags)
       IN  IF Skipped(cur, u, flags)
           THEN used' = [u EXCEPT !.outcome = "skip"] /\ pc' = "returned"
           ELSE used' = u /\ pc' = "info"
    /\ UNCHANGED <<configStack, flags, pushedDirs, currentPath, totalSize, builder, todo,
                   cur, reads, descended, produced, sink, failure, op, base, twin, heap>>

\* info, err := d.Info()
FileInfo ==
    /\ pc = "info"
    /\ op' = [op EXCEPT !.calls = Append(@, "Info")]
    /\ IF op.disk.infoErr
       THEN used' = [used EXCEPT !.outcome = "infoerr"] /\ pc' = "returned"
       ELSE used' = used /\ pc' = "size"
    /\ UNCHANGED <<configStack, flags, pushedDirs, currentPath, totalSize, builder, todo,
                   cur, reads, descended, produced, sink, failure, base, twin, heap>>

\* if info.Size() > maxSizeBytes
FileSizeTest ==
    /\ pc = "size"
    /\ IF TooLarge(op.disk.size, used.config.MaxSizeKB)
       THEN used' = [used EXCEPT !.outcome = "large"] /\ pc' = "returned"
       ELSE used' = used /\ pc' = "preview"
    /\ UNCHANGED <<configStack, flags, pushedDirs, currentPath, totalSize, builder, todo,
                   cur, reads, descended, produced, sink, failure, op, base, twin, heap>>

\* isText, err := isplaintextfile.FilePreview(path, effectiveConfig.MaxSizeKB)
FilePreview ==
    /\ pc = "preview"
    /\ op' = [op EXCEPT !.calls = Append(@, "FilePreview")]
    /\ IF op.disk.previewErr
       THEN used' = [used EXCEPT !.outcome = "previewerr"] /\ pc' = "returned"
       ELSE IF ~op.disk.isText
       THEN used' = [used EXCEPT !.outcome = "binary"] /\ pc' = "returned"
       ELSE used' = used /\ pc' = "read"
    /\ UNCHANGED <<configStack, flags, pushedDirs, currentPath, totalSize, builder, todo,
                   cur, reads, descended, produced, sink, failure, base, twin, heap>>

\* content, err := os.ReadFile(path)
FileRead ==
    /\ pc = "read"
    /\ op' = [op EXCEPT !.calls = Append(@, "ReadFile")]
    /\ IF op.disk.readErr
       THEN used' = [used EXCEPT !.outcome = "readerr"] /\ pc' = "returned"
       ELSE used' = used /\ pc' = "append"
    /\ UNCHANGED <<configStack, flags, pushedDirs, currentPath, totalSize, builder, todo,
                   cur, reads, descended, produced, sink, failure, base, twin, heap>>

\* The block is formatted and, below the ceiling, appended to the builder
FileAppend ==
    /\ pc = "append"
    /\ LET relOut == RelPathForOutput(RootDir, cur.path)
           size == FileSize(relOut, used.config.Delimiter, op.disk.size)
       IN  IF ExceedsLimit(totalSize, size)
           THEN /\ used' = [used EXCEPT !.outcome = "overflow", !.fileSize = size]
                /\ pc' = "fatal" /\ failure' = "size"
                /\ UNCHANGED <<totalSize, builder>>
           ELSE /\ used' = [used EXCEPT !.outcome = "emit", !.fileSize = size]
                /\ builder' = Append(builder, [path |-> relOut,
                                               delimiter |-> used.config.Delimiter,
                                               size |-> size])
                /\ totalSize' = totalSize + size
                /\ pc' = "returned"
                /\ UNCHANGED failure
    /\ UNCHANGED <<configStack, flags, pushedDirs, currentPath, todo, cur, reads,
                   descended, produced, sink, op, base, twin, heap>>

NextFile ==
    FileFilters \/ FileInfo \/ FileSizeTest \/ FilePreview \/ FileRead \/ FileAppend

SpecFile == InitFile /\ [][NextFile]_vars

(***************************************************************************)
(* The Config records as Go keeps them: records behind pointers, lists as  *)
(* slices of backing arrays                                                *)
(***************************************************************************)

\* Appends a caller makes to a list of the record it was given
MaxAppends == 1

\* A slice: its backing array (0: none) and its length; a nil pointer
NilSlice == [arr |-> 0, len |-> 0]
NilPointer == 0

\* cap(s) and the elements of s
Cap(h, s) == IF s.arr = 0 THEN 0 ELSE Len(h.arrs[s.arr])
Elems(h, s) == IF s.arr = 0 THEN <<>> ELSE SubSeq(h.arrs[s.arr], 1, s.len)

\* An address not in use, and memory f with v stored at id
NewId(f) ==
    IF DOMAIN f = {} THEN 1
    ELSE 1 + CHOOSE i \in DOMAIN f : \A j \in DOMAIN f : j <= i

Store(f, id, v) == [x \in (DOMAIN f) \cup {id} |-> IF x = id THEN v ELSE f[x]]

\* The capacity append gives a short slice of strings that has to grow:
\* what is needed when that is more than double, else double
GrowCap(oldCap, needed) == IF needed > 2 * oldCap THEN needed ELSE 2 * oldCap

\* append(s, xs...): in place when the capacity suffices, else into a new
\* array; the heap afterwards and the slice returned
GoAppend(h, s, xs) ==
    LET n == s.len + Len(xs)
    IN  IF xs = <<>> THEN [heap |-> h, slice |-> s]
        ELSE IF n <= Cap(h, s)
        THEN [heap  |-> [h EXCEPT !.arrs[s.arr] =
                            [i \in 1..Len(@) |->
                                IF i > s.len /\ i <= n THEN xs[i - s.len] ELSE @[i]]],
              slice |-> [s EXCEPT !.len = n]]
        ELSE LET id  == NewId(h.arrs)
                 old == Elems(h, s)
             IN  [heap  |-> [h EXCEPT !.arrs =
                                Store(@, id, [i \in 1..GrowCap(Cap(h, s), n) |->
                                                IF i <= s.len THEN old[i]
                                                ELSE IF i <= n THEN xs[i - s.len]
                                                ELSE <<>>])],
                  slice |-> [arr |-> id, len |-> n]]

\* parseCommaSeparated builds its result by appending one string at a time to
\* a nil slice
RECURSIVE AppendEach(_, _, _)
AppendEach(h, s, xs) ==
    IF xs = <<>> THEN [heap |-> h, slice |-> s]
    ELSE LET a == GoAppend(h, s, <<Head(xs)>>)
         IN  AppendEach(a.heap, a.slice, Tail(xs))

\* The heap restricted to the records roots point to and to their arrays
Collect(h, roots) ==
    LET objs == [i \in roots \cap DOMAIN h.objs |-> h.objs[i]]
        inUse == ({ objs[i].Include.arr : i \in DOMAIN objs }
                  \cup { objs[i].Exclude.arr : i \in DOMAIN objs }) \ {0}
    IN  [objs |-> objs, arrs |-> [a \in inUse |-> h.arrs[a]]]

\* The record loadConfigFromFile returns for a file that holds cfg
AllocConfig(h, cfg) ==
    LET inc == AppendEach(h, NilSlice, cfg.Include)
        exc == AppendEach(inc.heap, NilSlice, cfg.Exclude)
        id  == NewId(exc.heap.objs)
    IN  [heap |-> [exc.heap EXCEPT !.objs =
                      Store(@, id, [cfg EXCEPT !.Include = inc.slice,
                                               !.Exclude = exc.slice])],
         id   |-> id]

\* The records of the layers of a stack, oldest first
RECURSIVE AllocLayers(_, _)
AllocLayers(h, cfgs) ==
    IF cfgs = <<>> THEN [heap |-> h, ids |-> <<>>]
    ELSE LET a    == AllocConfig(h, Head(cfgs))
             rest == AllocLayers(a.heap, Tail(cfgs))
         IN  [heap |-> rest.heap, ids |-> <<a.id>> \o rest.ids]

\* The Config a pointer leads to, lists by their elements
ValueOf(h, id) ==
    [h.objs[id] EXCEPT !.Include = Elems(h, @), !.Exclude = Elems(h, @)]

\* mergeConfig(target, source) on pointers
mergeConfigOnHeap(h, target, source) ==
    IF source = NilPointer THEN h
    ELSE LET src == h.objs[source]
             h1  == [h EXCEPT
                       !.objs[target].Delimiter =
                           IF src.Delimiter # <<>> THEN src.Delimiter ELSE @,
                       !.objs[target].MaxSizeKB =
                           IF src.MaxSizeKB > 0 THEN src.MaxSizeKB ELSE @,
                       !.objs[target].NoRecursive =
                           IF src.NoRecursive THEN TRUE ELSE @]
             inc == IF src.Include.len > 0
                    THEN GoAppend(h1, h1.objs[target].Include, Elems(h1, src.Include))
                    ELSE [heap |-> h1, slice |-> h1.objs[target].Include]
             h2  == [inc.heap EXCEPT !.objs[target].Include = inc.slice]
             exc == IF src.Exclude.len > 0
                    THEN GoAppend(h2, h2.objs[target].Exclude, Elems(h2, src.Exclude))
                    ELSE [heap |-> h2, slice |-> h2.objs[target].Exclude]
         IN  [exc.heap EXCEPT !.objs[target].Exclude = exc.slice]

RECURSIVE MergeLayersOnHeap(_, _, _)
MergeLayersOnHeap(h, effective, ls) ==
    IF ls = <<>> THEN h
    ELSE MergeLayersOnHeap(mergeConfigOnHeap(h, effective, Head(ls).Config),
                           effective, Tail(ls))

\* The record of the defaults GetEffectiveConfig starts from
NewDefaults(h) ==
    LET id == NewId(h.objs)
    IN  [heap |-> [h EXCEPT !.objs =
                      Store(@, id, [DefaultConfig EXCEPT !.Include = NilSlice,
                                                         !.Exclude = NilSlice])],
         id   |-> id]

\* GetEffectiveConfig that hands out the record of a stack's only layer
GetEffectiveConfigSharesLayer(h, stack) ==
    IF Len(stack.layers) = 1
    THEN [heap |-> h, ret |-> stack.layers[1].Config]
    ELSE LET effective == NewDefaults(h)
         IN  [heap |-> MergeLayersOnHeap(effective.heap, effective.id, stack.layers),
              ret  |-> effective.id]

\* ConfigStack.GetEffectiveConfig on pointers: the heap afterwards and the
\* pointer returned
GetEffectiveConfigOnHeap(h, stack) ==
    LET effective == NewDefaults(h)
    IN  [heap |-> MergeLayersOnHeap(effective.heap, effective.id, stack.layers),
         ret  |-> effective.id]

\* The pointers a stack holds: its layers' and its cache's
StackPointers(stack) ==
    ({ stack.layers[i].Config : i \in DOMAIN stack.layers }
     \cup { stack.cache[d] : d \in DOMAIN stack.cache }) \ {NilPointer}

\* A stack of nested directories' layers as PushIfExists leaves it: layer and
\* cache entry of a directory below the root hold the same pointer
InitHeap ==
    \E n \in 0..MaxLayers : \E cfgs \in [1..n -> MergeConfigs] :
        LET a == AllocLayers(NoHeap, cfgs)
        IN  /\ configStack =
                  [layers  |-> [i \in 1..n |->
                                  [Directory |-> NestedDir(i), Config |-> a.ids[i]]],
                   cache   |-> [d \in { NestedDir(i) : i \in 2..n } |->
                                  a.ids[CHOOSE i \in 2..n : NestedDir(i) = d]],
                   rootDir |-> RootDir, homeDir |-> NoHome]
            /\ heap = Collect(a.heap, { a.ids[i] : i \in 1..n })
            /\ base = [i \in 1..n |-> Layer(NestedDir(i), cfgs[i])]
        /\ op = [name |-> "none", dir |-> <<>>, ret |-> FALSE, rec |-> NilPointer,
                 modified |-> FALSE]
        /\ flags = NoFlags
        /\ pushedDirs = {}
        /\ currentPath = <<>>
        /\ totalSize = 0
        /\ builder = <<>>
        /\ todo = <<>>
        /\ pc = "heap"
        /\ cur = NoEntry
        /\ used = NoUse
        /\ reads = <<>>
        /\ descended = {}
        /\ produced = 0
        /\ sink = NotWritten
        /\ failure = "none"
        /\ twin = NoTwin

\* effectiveConfig := configStack.GetEffectiveConfig(): the record the caller
\* held before is garbage
CallGetEffectiveConfigOnHeap ==
    /\ pc = "heap"
    /\ LET res == GetEffectiveConfigOnHeap(Collect(heap, StackPointers(configStack)),
                                           configStack)
       IN  /\ heap' = res.heap
           /\ op' = [op EXCEPT !.name = "GetEffectiveConfig", !.ret = TRUE,
                               !.rec = res.ret]
    /\ UNCHANGED <<configStack, flags, pushedDirs, currentPath, totalSize, builder,
                   todo, pc, cur, used, reads, descended, produced, sink, failure,
                   base, twin>>

\* The caller assigns the scalar fields of the record it was given
CallerSetsScalars ==
    /\ pc = "heap" /\ op.rec # NilPointer
    /\ heap.objs[op.rec].Delimiter # sDashes
    /\ heap' = [heap EXCEPT !.objs[op.rec].Delimiter = sDashes,
                            !.objs[op.rec].MaxSizeKB = 64,
                            !.objs[op.rec].NoRecursive = ~@]
    /\ op' = [op EXCEPT !.name = "set", !.modified = TRUE]
    /\ UNCHANGED <<configStack, flags, pushedDirs, currentPath, totalSize, builder,
                   todo, pc, cur, used, reads, descended, produced, sink, failure,
                   base, twin>>

\* The caller appends a pattern to a list of the record it was given
CallerAppends ==
    /\ pc = "heap" /\ op.rec # NilPointer
    /\ \E field \in {"Include", "Exclude"} :
         LET s == heap.objs[op.rec][field]
             a == GoAppend(heap, s, <<sHidden>>)
             merged == GetEffectiveConfig([configStack EXCEPT !.layers = base])[field]
         IN  /\ s.len < Len(merged) + MaxAppends
             /\ heap' = [a.heap EXCEPT !.objs[op.rec][field] = a.slice]
    /\ op' = [op EXCEPT !.name = "append", !.modified = TRUE]
    /\ UNCHANGED <<configStack, flags, pushedDirs, currentPath, totalSize, builder,
                   todo, pc, cur, used, reads, descended, produced, sink, failure,
                   base, twin>>

NextHeap == CallGetEffectiveConfigOnHeap \/ CallerSetsScalars \/ CallerAppends

SpecHeap == InitHeap /\ [][NextHeap]_vars

(***************************************************************************)
(* Properties                                                              *)
(***************************************************************************)

\* path is dir or lies below it
Within(path, dir) == path = dir \/ HasPrefix(path, dir \o Separator)

\* The position of the last separator of path (0 when it has none)
LastSep(path) ==
    LET seps == { i \in 1..Len(path) : path[i] = "/" }
    IN  IF seps = {} THEN 0 ELSE CHOOSE i \in seps : \A j \in seps : j <= i

\* The directory an entry lies in, and the last element of its path
Parent(path) == SubSeq(path, 1, LastSep(path) - 1)
BaseName(path) == SubSeq(path, LastSep(path) + 1, Len(path))

\* The directories strictly below the root on the way to path, path included
DirsBelowRoot(path) ==
    { SubSeq(path, 1, k) : k \in { i \in 1..Len(path) :
        /\ i = Len(path) \/ path[i + 1] = "/"
        /\ HasPrefix(SubSeq(path, 1, i), RootDir \o Separator) } }

\* The callback has handled an entry
Handled == pc # "api" /\ used.outcome # "none"

\* The directories of the layers NewConfigStack built
BaseDirs == { base[i].Directory : i \in DOMAIN base }

\* The layers the callback merged for cur that a directory entered during
\* the walk contributed
ScopedLayersUsed == { used.layers[i] : i \in DOMAIN used.layers } \ BaseDirs

\* layerDir lies in the subtree of a directory A and the entry in the subtree
\* of a sibling directory B of A
InSiblingSubtrees(layerDir, entry) ==
    \E A \in DirsBelowRoot(layerDir), B \in DirsBelowRoot(entry.path) :
        /\ A # B
        /\ Parent(A) = Parent(B)
        /\ B # entry.path \/ entry.isDir

\* C1: no entry inside the subtree of a directory B is handled with a layer
\* from the subtree of a sibling directory A of B in its effective
\* configuration, in whatever order the driver ranges over pushedDirs.
C1_SiblingLayerNeverUsed ==
    Handled => \A layerDir \in ScopedLayersUsed : ~InSiblingSubtrees(layerDir, cur)

\* C2: once the walk has left the subtree of a directory D, no entry, file or
\* directory, is handled with the layer of D on the stack.
C2_LayerOffStackOutsideSubtree ==
    Handled => \A layerDir \in ScopedLayersUsed : Within(cur.path, layerDir)

\* The configuration file of the root, as NewConfigStack loaded it
RootLayers == { i \in DOMAIN base : base[i].Directory = RootDir }

\* The root config says exclude=*.md, the home directory has no config and no
\* flag is given
RootExcludesMd ==
    /\ flags = NoFlags
    /\ BaseDirs = {RootDir}
    /\ \E i \in RootLayers : base[i].Config.Exclude = <<sStarMd>>

\* The subdirectories whose config the walk found to say include=README.md
ReadmeDirs ==
    { dir \in DOMAIN configStack.cache :
        /\ configStack.cache[dir] # Nil
        /\ configStack.cache[dir].Include = <<sReadme>> }

\* An output path names a file of the root itself
RootLevel(outPath) ==
    LastSep(outPath) = (IF HasPrefix(outPath, <<".", "/">>) THEN 2 ELSE 0)

IsMd(name) == GlobMatch(sStarMd, name)

\* The absolute path of an output path "./x/y", or ".x/y" below a hidden entry
AbsOf(outPath) ==
    IF HasPrefix(outPath, <<".", "/">>) THEN RootDir \o SubSeq(outPath, 2, Len(outPath))
    ELSE Join(RootDir, outPath)

\* C3: with exclude=*.md in the root config and include=README.md in the config
\* of a subdirectory, README.md inside that subdirectory passes the filters,
\* and every *.md file emitted is a README.md inside such a subdirectory: no
\* other *.md file of it and no *.md file of the root is emitted.
C3_NestedIncludeRescuesOnlyInside ==
    RootExcludesMd =>
        /\ \A i \in DOMAIN builder :
              IsMd(BaseName(builder[i].path)) =>
                /\ BaseName(builder[i].path) = sReadme
                /\ ~RootLevel(builder[i].path)
                /\ \E dir \in ReadmeDirs : Within(AbsOf(builder[i].path), dir)
        /\ ( /\ Handled /\ ~cur.isDir /\ cur.name = sReadme
              /\ \E dir \in ReadmeDirs : Within(cur.path, dir) )
            => used.outcome # "skip"

\* The root config says no-recursive=true and the command line does not say
\* --no-recursive=false
RootNoRecursive ==
    /\ \E i \in RootLayers : base[i].Config.NoRecursive
    /\ ~(flags.noRecursiveSet /\ ~flags.noRecursive)

\* C4: with no-recursive=true in the root config and no override on the
\* command line, the walk lists no directory but the root and every file
\* emitted lies directly in the root.
C4_NoRecursiveStaysInRoot ==
    RootNoRecursive =>
        /\ descended \subseteq {RootDir}
        /\ \A i \in DOMAIN builder : RootLevel(builder[i].path)

\* A subdirectory was reached under no-recursive and skipped
C4_SubdirectorySkipped ==
    /\ RootNoRecursive
    /\ cur.isDir /\ cur.path # RootDir /\ used.outcome = "norecursive"
    /\ builder # <<>>

\* no-recursive is in effect at the root: by the base layers or the flag
NoRecursiveAtRoot ==
    ApplyOverrides(GetEffectiveConfig([configStack EXCEPT !.layers = base]),
                   flags).NoRecursive

\* The directories whose config path the walk opened or cached
ConfigPathsTouched ==
    ((DOMAIN configStack.cache) \cup { dir \in DOMAIN reads : reads[dir] > 0 })
    \ {RootDir, configStack.homeDir}

\* C5: with no-recursive in effect at the root, at the end of the walk no
\* subdirectory that was not descended into has had its config file read or
\* has an entry in the cache.
C5_SkippedSubdirectoryConfigNeverRead ==
    (NoRecursiveAtRoot /\ pc = "done") => ConfigPathsTouched \subseteq descended

\* The entry matches a --exclude pattern by basename or relative path
CliExcluded(name, relPath) ==
    matchesAnyPatternWithPath(name, relPath, cliExcludePatterns(flags))

\* C6: an entry that matches a --exclude pattern is skipped whatever include
\* pattern matches it: it is never emitted and, a directory, never entered.
C6_CliExcludeAlwaysWins ==
    /\ (Handled /\ CliExcluded(cur.name, RelPathForMatch(RootDir, cur.path)))
         => used.outcome \in {"skip", "skipdir"}
    /\ \A i \in DOMAIN builder :
          ~CliExcluded(BaseName(builder[i].path), builder[i].path)
    /\ \A dir \in descended :
          ~CliExcluded(BaseName(dir), RelPathForMatch(RootDir, dir))

\* An entry matched by --exclude and by an include pattern was handled
C6_ExcludedAndIncluded ==
    /\ Handled
    /\ CliExcluded(cur.name, RelPathForMatch(RootDir, cur.path))
    /\ matchesAnyPatternWithPath(cur.name, RelPathForMatch(RootDir, cur.path),
                                 used.include)

\* C7: a file whose block would take the output past maxTotalSize ends the
\* run in failure with the clipboard unwritten; a block that fills the output
\* up to maxTotalSize exactly is accepted; whatever is written to the clipboard
\* is at most maxTotalSize bytes.
C7_CeilingAbortsWithoutOutput ==
    /\ totalSize <= maxTotalSize
    /\ sink.written => (sink.size <= maxTotalSize /\ failure = "none")
    /\ pc = "fatal" => sink = NotWritten
    /\ (Handled /\ used.outcome = "overflow")
         => (totalSize + used.fileSize > maxTotalSize /\ pc = "fatal" /\ failure = "size")

\* The run failed on the ceiling with blocks already gathered
C7_AbortedWithBlocksGathered ==
    failure = "size" /\ builder # <<>> /\ sink = NotWritten

\* The failures of one item that the callback answers with "return nil"
ItemFailures == {"infoerr", "previewerr", "readerr", "large", "binary"}

\* C8 as stated: a run ends in failure only when the ceiling is exceeded.
C8_OnlyCeilingEndsRun ==
    pc = "fatal" => failure = "size"

\* C8, amended: during the walk a run ends in failure when the ceiling is
\* exceeded or when the walker reports a directory it cannot list; a file
\* that cannot be inspected, classified or read is skipped and the walk goes
\* on, and so does the walk past a config file that cannot be opened.
C8_CeilingOrWalkerErrorEndsRun ==
    /\ pc = "fatal" =>
          \/ failure = "size" /\ used.outcome = "overflow"
          \/ failure = "walk" /\ cur.isDir /\ used.outcome = "enter"
    /\ (Handled /\ used.outcome \in ItemFailures) => (pc # "fatal" /\ failure = "none")
    /\ pc # "fatal" => failure = "none"
    /\ pc = "done" => todo = <<>>

\* The walk goes on past a file it could not read
C8_UnreadableFileSkipped ==
    /\ Handled /\ used.outcome = "readerr"
    /\ pc = "walk" /\ todo # <<>>

\* C9: a call of PushIfExists with the recorded root or the recorded home
\* directory returns false, leaves the layers as they were and reads nothing
\* from disk.
C9_PushOfRootOrHomeIsNoOp ==
    [][ (op'.name = "PushIfExists" /\ op'.dir \in {configStack.rootDir, configStack.homeDir})
        => /\ ~op'.ret
           /\ configStack'.layers = configStack.layers
           /\ reads' = reads ]_vars

\* PushIfExists was called with the home directory on a stack that has layers
C9_HomePushed ==
    /\ op.name = "PushIfExists"
    /\ op.dir = configStack.homeDir /\ op.dir # configStack.rootDir
    /\ configStack.layers # <<>>

\* C10: the layers NewConfigStack built stay on the stack, at their positions,
\* through every sequence of PushIfExists and Pop calls.
C10_BaseLayersStay ==
    pc = "api" =>
        /\ Len(configStack.layers) >= Len(base)
        /\ SubSeq(configStack.layers, 1, Len(base)) = base

\* The directory of the top layer (none on an empty stack)
TopDir(layers) == IF layers = <<>> THEN <<>> ELSE layers[Len(layers)].Directory

\* C11: Pop(D) on an empty stack or on a stack whose top layer is not of D
\* leaves layers and cache as they were, also when a layer of D lies deeper;
\* Pop(D) on a stack whose top layer is of D removes that layer and nothing
\* else.
C11_PopRemovesMatchingTopOnly ==
    [][ op'.name = "Pop" =>
          /\ configStack'.cache = configStack.cache
          /\ IF configStack.layers # <<>> /\ TopDir(configStack.layers) = op'.dir
             THEN configStack'.layers =
                      SubSeq(configStack.layers, 1, Len(configStack.layers) - 1)
             ELSE configStack'.layers = configStack.layers ]_vars

\* Pop(D) was called with a layer of D below a top layer of another directory
C11_PoppedOutOfOrder ==
    /\ op.name = "Pop"
    /\ configStack.layers # <<>>
    /\ TopDir(configStack.layers) # op.dir
    /\ \E i \in DOMAIN configStack.layers : configStack.layers[i].Directory = op.dir

\* The directories PushIfExists does not refuse: neither root nor home
ScopedDirs == StackDirs \ {configStack.rootDir, configStack.homeDir}

\* How often the config path of dir was opened
ReadsOf(dir) == IF dir \in DOMAIN reads THEN reads[dir] ELSE 0

\* The cache has dir with no configuration
CachedAbsent(dir) ==
    dir \in DOMAIN configStack.cache /\ configStack.cache[dir] = Nil

\* The cache has dir with a configuration
CachedConfig(dir) ==
    dir \in DOMAIN configStack.cache /\ configStack.cache[dir] # Nil

\* C12: for a directory that is neither root nor home and has no config
\* file (or one that cannot be opened), the first PushIfExists returns false,
\* leaves the layers as they were and caches nil for it; from then on
\* PushIfExists returns false with the stack as it was and without a disk
\* read whatever the directory holds by then, so its config path has been
\* opened exactly once.
C12_AbsentConfigProbedOnce ==
    pc = "api" =>
      \A dir \in ScopedDirs :
        /\ dir \notin DOMAIN configStack.cache =>
              \A file \in {Absent, Unreadable} :
                LET first == PushIfExists(configStack, dir, file)
                IN  /\ ~first.ret /\ first.read
                    /\ first.cs.layers = configStack.layers
                    /\ first.cs.cache = CachePut(configStack.cache, dir, Nil)
        /\ CachedAbsent(dir) =>
              /\ ReadsOf(dir) = 1
              /\ \A file \in ConfigFiles :
                    LET later == PushIfExists(configStack, dir, file)
                    IN  ~later.ret /\ ~later.read /\ later.cs = configStack

\* PushIfExists has answered false for a directory cached as having no config
C12_AbsentProbed ==
    /\ op.name = "PushIfExists" /\ ~op.ret
    /\ op.dir \in ScopedDirs
    /\ CachedAbsent(op.dir) /\ ReadsOf(op.dir) = 1

\* C13: through NewConfigStack and every sequence of PushIfExists and Pop
\* calls, the config path of each directory, root and home included, is opened
\* at most once.
C13_EachConfigPathOpenedAtMostOnce ==
    pc = "api" => \A dir \in DOMAIN reads : reads[dir] <= 1

\* A directory read once has two layers on the stack
C13_PushedTwiceReadOnce ==
    /\ op.name = "PushIfExists" /\ op.ret
    /\ ReadsOf(op.dir) = 1
    /\ Cardinality({ i \in DOMAIN configStack.layers :
                        configStack.layers[i].Directory = op.dir }) >= 2
    /\ \A dir \in {configStack.rootDir, configStack.homeDir} \ {NoHome} :
          ReadsOf(dir) = 1

\* C14: Pop leaves the cache as it is, and with a configuration cached for a
\* directory, PushIfExists returns true and pushes a layer holding exactly the
\* cached configuration, without a disk read, whatever the file holds by then.
C14_CachedConfigPushedAgain ==
    pc = "api" =>
      /\ \A dir \in StackDirs : Pop(configStack, dir).cache = configStack.cache
      /\ \A dir \in ScopedDirs :
            CachedConfig(dir) =>
              \A file \in ConfigFiles :
                LET again == PushIfExists(configStack, dir, file)
                IN  /\ again.ret /\ ~again.read
                    /\ again.cs.cache = configStack.cache
                    /\ again.cs.layers =
                         Append(configStack.layers, Layer(dir, configStack.cache[dir]))

\* Pop has removed the layer of a directory whose configuration is cached
C14_PoppedButCached ==
    /\ op.name = "Pop"
    /\ op.dir \in ScopedDirs /\ CachedConfig(op.dir)
    /\ \A i \in DOMAIN configStack.layers : configStack.layers[i].Directory # op.dir

\* C15: a PushIfExists that returns true followed by Pop of the same directory
\* gives back the layers, and with them every field of the effective
\* configuration, at any depth of the stack.
C15_PushThenPopRestores ==
    pc = "api" =>
      LET before == GetEffectiveConfig(configStack) IN
      \A dir \in ScopedDirs :
        \* the file is opened only when the cache does not know dir
        \A file \in (IF dir \in DOMAIN configStack.cache THEN {Absent} ELSE ConfigFiles) :
          LET pushed == PushIfExists(configStack, dir, file)
              popped == Pop(pushed.cs, dir)
          IN  pushed.ret =>
                /\ Len(pushed.cs.layers) = Len(configStack.layers) + 1
                /\ popped.layers = configStack.layers
                /\ GetEffectiveConfig(popped) = before

\* Pops have brought a stack that held a pushed layer back to its base layers
C15_BackToBase ==
    /\ op.name = "Pop"
    /\ configStack.layers = base /\ base # <<>>
    /\ CachedConfig(op.dir)
    /\ GetEffectiveConfig(configStack) # DefaultConfig

\* The layers merged so far, and the whole stack merged
Merged == SubSeq(configStack.layers, 1, Len(used.layers))
AllMerged == pc = "merge" /\ Len(used.layers) = Len(configStack.layers)

\* Every field of a configuration is unset
AllUnset(cfg) ==
    /\ cfg.Delimiter = <<>> /\ cfg.MaxSizeKB <= 0 /\ ~cfg.NoRecursive
    /\ cfg.Include = <<>> /\ cfg.Exclude = <<>>

\* C16: merging nil, or a layer with every field unset, into a configuration
\* leaves its five fields as they were, and a field a layer leaves unset keeps
\* the value of the accumulator.
C16_UnsetFieldsNeverOverwrite ==
    pc = "merge" =>
      /\ mergeConfig(used.config, Nil) = used.config
      /\ \A cfg \in MergeConfigs \cup {ZeroConfig} :
            LET merged == mergeConfig(used.config, cfg)
            IN  /\ AllUnset(cfg) => merged = used.config
                /\ cfg.Delimiter = <<>> => merged.Delimiter = used.config.Delimiter
                /\ cfg.MaxSizeKB <= 0 => merged.MaxSizeKB = used.config.MaxSizeKB
                /\ ~cfg.NoRecursive => merged.NoRecursive = used.config.NoRecursive
                /\ cfg.Include = <<>> => merged.Include = used.config.Include
                /\ cfg.Exclude = <<>> => merged.Exclude = used.config.Exclude

\* A layer with every field unset was merged into an accumulator whose
\* delimiter, max-size, no-recursive and exclude list earlier layers had set
C16_UnsetLayerMerged ==
    /\ pc = "merge" /\ op.name = "mergeConfig" /\ Merged # <<>>
    /\ AllUnset(Merged[Len(Merged)].Config)
    /\ used.config.Delimiter # sBackticks /\ used.config.MaxSizeKB # 32
    /\ used.config.NoRecursive /\ used.config.Exclude # <<>>

\* The value the topmost of the layers that set a scalar field gives it, the
\* default when none sets it
DelimiterSetBy(layers) == { i \in DOMAIN layers : layers[i].Config.Delimiter # <<>> }
MaxSizeSetBy(layers)   == { i \in DOMAIN layers : layers[i].Config.MaxSizeKB > 0 }
Topmost(S) == CHOOSE i \in S : \A j \in S : j <= i

TopmostDelimiter(layers) ==
    IF DelimiterSetBy(layers) = {} THEN sBackticks
    ELSE layers[Topmost(DelimiterSetBy(layers))].Config.Delimiter

TopmostMaxSize(layers) ==
    IF MaxSizeSetBy(layers) = {} THEN 32
    ELSE layers[Topmost(MaxSizeSetBy(layers))].Config.MaxSizeKB

\* C17: the delimiter and the max-size of the effective configuration are
\* those of the topmost active layer that sets the field (a non-empty
\* delimiter, a max-size above 0), the defaults when no active layer does.
C17_ScalarsFromTopmostSetter ==
    pc = "merge" =>
      /\ used.config.Delimiter = TopmostDelimiter(Merged)
      /\ used.config.MaxSizeKB = TopmostMaxSize(Merged)
      /\ GetEffectiveConfig(configStack).Delimiter = TopmostDelimiter(configStack.layers)
      /\ GetEffectiveConfig(configStack).MaxSizeKB = TopmostMaxSize(configStack.layers)

\* A nested layer has overridden the max-size of an ancestor, and the
\* delimiter of an ancestor has come through a layer that sets none
C17_OverriddenAndKept ==
    /\ AllMerged /\ Len(Merged) >= 2
    /\ Cardinality({ Merged[i].Config.MaxSizeKB : i \in MaxSizeSetBy(Merged) }) >= 2
    /\ used.config.MaxSizeKB < 1024
    /\ DelimiterSetBy(Merged) # {}
    /\ Topmost(DelimiterSetBy(Merged)) < Len(Merged)

\* The lists of the layers one after another, oldest layer first
RECURSIVE IncludesOf(_)
IncludesOf(layers) ==
    IF layers = <<>> THEN <<>>
    ELSE Head(layers).Config.Include \o IncludesOf(Tail(layers))

RECURSIVE ExcludesOf(_)
ExcludesOf(layers) ==
    IF layers = <<>> THEN <<>>
    ELSE Head(layers).Config.Exclude \o ExcludesOf(Tail(layers))

\* C18: the effective include list, and likewise the exclude list, is the
\* lists of the active layers one after another in stack order, bottom to
\* top, every element kept, duplicates too.
C18_ListsConcatenated ==
    pc = "merge" =>
      /\ used.config.Include = IncludesOf(Merged)
      /\ used.config.Exclude = ExcludesOf(Merged)
      /\ GetEffectiveConfig(configStack).Include = IncludesOf(configStack.layers)
      /\ GetEffectiveConfig(configStack).Exclude = ExcludesOf(configStack.layers)

\* Layers with different lists were merged and an element occurs twice
C18_DuplicateKept ==
    /\ AllMerged
    /\ Len(used.config.Include) >= 3
    /\ used.config.Include[1] = sReadme
    /\ \E i, j \in DOMAIN used.config.Include :
          i < j /\ used.config.Include[i] = used.config.Include[j]

\* C19: with no layer the effective configuration is three backquotes, 32,
\* false and two empty lists, and with layers it is what merging them one by
\* one, oldest first, into exactly these values gives.
C19_DefaultsThenLayersOldestFirst ==
    pc = "merge" =>
      /\ configStack.layers = <<>> =>
            GetEffectiveConfig(configStack) =
                [Delimiter |-> <<Backquote, Backquote, Backquote>>, MaxSizeKB |-> 32,
                 NoRecursive |-> FALSE, Include |-> <<>>, Exclude |-> <<>>]
      /\ used.layers = <<>> => used.config = DefaultConfig
      /\ AllMerged => GetEffectiveConfig(configStack) = used.config

\* GetEffectiveConfig was called on a stack whose layers, all merged, set the
\* same field to different values
C19_OrderMatters ==
    /\ AllMerged /\ op.name = "GetEffectiveConfig" /\ op.ret
    /\ Cardinality({ Merged[i].Config.Delimiter : i \in DelimiterSetBy(Merged) }) >= 2

\* C20: at every entry the driver visits, a --delimiter, --max-size or
\* --no-recursive given on the command line is the value used for the entry
\* whatever the active layers say: the blocks carry the delimiter of the
\* command line, no file above its max-size is emitted, and the driver enters
\* a subdirectory exactly when its no-recursive is false.
C20_CommandLineScalarsWin ==
    /\ flags.delimiterSet =>
          /\ Handled => used.config.Delimiter = flags.delimiter
          /\ \A i \in DOMAIN builder : builder[i].delimiter = flags.delimiter
    /\ (flags.maxSizeSet /\ Handled) =>
          /\ used.config.MaxSizeKB = flags.maxSize
          /\ used.outcome \in {"emit", "overflow"} =>
                used.fileSize <= FileSize(RelPathForOutput(RootDir, cur.path),
                                          used.config.Delimiter, flags.maxSize * 1024)
    /\ (flags.noRecursiveSet /\ Handled) =>
          /\ used.config.NoRecursive = flags.noRecursive
          /\ ~flags.noRecursive => used.outcome # "norecursive"
          /\ (flags.noRecursive /\ cur.path # RootDir) => used.outcome # "enter"

\* With --no-recursive=false the driver has entered a subdirectory while an
\* active layer has no-recursive=true
C20_DescendedAgainstLayer ==
    /\ Handled /\ flags.noRecursiveSet /\ ~flags.noRecursive
    /\ \E i \in DOMAIN configStack.layers : configStack.layers[i].Config.NoRecursive
    /\ cur.isDir /\ cur.path # RootDir /\ used.outcome = "enter"

\* relPath of the entry the callback handled, as the filters see it
CurRelPath == RelPathForMatch(RootDir, cur.path)

\* The callback filtered the entry out
FilteredOut == used.outcome \in {"skip", "skipdir"}

\* The list --include gives
CommandLineIncludes ==
    IF flags.include # <<>> THEN parseCommaSeparated(flags.include) ELSE <<>>

C22_ExcludeOnlyAdds ==
    (pc = "twin" /\ used.outcome # "none") =>
      /\ used.exclude = used.config.Exclude \o cliExcludePatterns(flags)
      /\ twin.used.outcome \in {"skip", "skipdir"} => FilteredOut

\* pattern matches s as a glob, without error
Globs(pattern, s) == ~Match(pattern, s).err /\ Match(pattern, s).matched

\* s without one leading "./"
WithoutDotSlash(s) ==
    IF Len(s) >= 2 /\ s[1] = "." /\ s[2] = "/" THEN SubSeq(s, 3, Len(s)) ELSE s

\* C23: matchesAnyPatternWithPath is true exactly when some pattern of the
\* list glob-matches the name or, for a non-empty relPath, relPath itself or
\* relPath without one leading "./"; on the empty list it is false; it
\* changes neither its arguments nor anything else.
C23_MatchesNameOrPath ==
    [][op'.name = "matchesAnyPatternWithPath" =>
        /\ op'.ret <=>
              \E i \in DOMAIN op.args.patterns :
                LET pattern == op.args.patterns[i]
                IN  \/ Globs(pattern, op.args.name)
                    \/ /\ op.args.relPath # <<>>
                       /\ \/ Globs(pattern, op.args.relPath)
                          \/ Globs(pattern, WithoutDotSlash(op.args.relPath))
        /\ op.args.patterns = <<>> => ~op'.ret
        /\ op'.args = op.args
        /\ UNCHANGED <<configStack, flags, pushedDirs, currentPath, totalSize, builder,
                       todo, cur, used, reads, sink>>]_vars

\* A call was true by the path without its "./" alone, neither the name nor
\* the path as given matching any pattern
C23_MatchedWithoutDotSlash ==
    /\ op.name = "matchesAnyPatternWithPath" /\ op.ret
    /\ \A i \in DOMAIN op.args.patterns :
          /\ ~Globs(op.args.patterns[i], op.args.name)
          /\ ~Globs(op.args.patterns[i], op.args.relPath)
    /\ \E i \in DOMAIN op.args.patterns : op.args.patterns[i] = sOpenClass

\* The name of the entry starts with a dot
Hidden(path) == HasPrefix(BaseName(path), <<".">>)

\* The hidden directories path lies beneath
HiddenAbove(path) == { a \in DirsBelowRoot(path) \ {path} : Hidden(a) }

\* What the walk has reached: the files emitted, the directories listed, the
\* config paths opened or cached, the entries handed or still to hand to the
\* callback
Reached ==
    { AbsOf(builder[i].path) : i \in DOMAIN builder }
    \cup descended \cup ConfigPathsTouched
    \cup { todo[i].path : i \in DOMAIN todo }
    \cup (IF Handled THEN {cur.path} ELSE {})

\* C24: a hidden entry is emitted or entered only if an include pattern in
\* effect at it matches it; a hidden directory that none matches is left
\* without its config file being probed, and nothing beneath it is reached:
\* no file emitted, no config file probed.
C24_HiddenOnlyWhenIncluded ==
    /\ (Handled /\ HasPrefix(cur.name, <<".">>)) =>
          /\ ~FilteredOut =>
                matchesAnyPatternWithPath(cur.name, CurRelPath, used.include)
          /\ ~matchesAnyPatternWithPath(cur.name, CurRelPath, used.include) =>
                /\ FilteredOut
                /\ cur.path \notin descended \cup ConfigPathsTouched
    /\ \A path \in Reached : HiddenAbove(path) \subseteq descended

\* A hidden file beneath a hidden directory was emitted
C24_HiddenEmitted ==
    /\ Handled /\ used.outcome = "emit"
    /\ HasPrefix(cur.name, <<".">>)
    /\ HiddenAbove(cur.path) # {}

\* The directories of the layers above the base layers, bottom to top
ScopedOnStack ==
    LayerDirs(SubSeq(configStack.layers, Len(base) + 1, Len(configStack.layers)))

\* C25: at every step of the walk the layers above the base layers belong,
\* bottom to top, to directories each a proper ancestor of the next and all
\* of them the entry being processed or ancestors of it, and the layers a
\* step of the driver removes are the topmost ones.
C25_ScopedLayersNestAroundEntry ==
    /\ [](Handled =>
            /\ SubSeq(configStack.layers, 1, Len(base)) = base
            /\ \A i \in DOMAIN ScopedOnStack :
                  /\ Within(cur.path, ScopedOnStack[i])
                  /\ i > 1 => /\ Within(ScopedOnStack[i], ScopedOnStack[i - 1])
                              /\ ScopedOnStack[i] # ScopedOnStack[i - 1])
    /\ [][\E k \in 0..Len(configStack.layers) :
            /\ Len(configStack.layers') \in {k, k + 1}
            /\ SubSeq(configStack.layers', 1, k) = SubSeq(configStack.layers, 1, k)]_vars

\* The layers one may merge: those of the config files, and the empty one
AnyLayerConfig == MergeConfigs \cup {ZeroConfig}

\* C26: applying layer L1 and then layer L2 to a configuration T gives what
\* applying to T the one layer "L2 merged into L1" gives: field by field the
\* last set delimiter and max-size, the OR of the no-recursive values, the
\* lists of T, L1 and L2 one after another.
C26_TwoLayersAsOne ==
    pc = "merge" =>
      \A T \in {used.config, ZeroConfig} : \A L1, L2 \in AnyLayerConfig :
        LET result == mergeConfig(mergeConfig(T, L1), L2)
        IN  /\ result = mergeConfig(T, mergeConfig(L1, L2))
            /\ result.Delimiter = IF L2.Delimiter # <<>> THEN L2.Delimiter
                                  ELSE IF L1.Delimiter # <<>> THEN L1.Delimiter
                                  ELSE T.Delimiter
            /\ result.MaxSizeKB = IF L2.MaxSizeKB > 0 THEN L2.MaxSizeKB
                                  ELSE IF L1.MaxSizeKB > 0 THEN L1.MaxSizeKB
                                  ELSE T.MaxSizeKB
            /\ result.NoRecursive = (T.NoRecursive \/ L1.NoRecursive \/ L2.NoRecursive)
            /\ result.Include = T.Include \o L1.Include \o L2.Include
            /\ result.Exclude = T.Exclude \o L1.Exclude \o L2.Exclude

\* Two layers that both give an include list, and a max-size only the first
\* of them, were merged one after the other into an accumulator that has lists
C26_TwoLayersMerged ==
    /\ pc = "merge" /\ op.name = "mergeConfig" /\ Len(Merged) = 3
    /\ LET T  == MergeLayers(DefaultConfig, SubSeq(Merged, 1, 1))
           L1 == Merged[2].Config
           L2 == Merged[3].Config
       IN  /\ T.Exclude # <<>>
           /\ L1.Include # <<>> /\ L2.Include # <<>> /\ L1.Include # L2.Include
           /\ L1.Exclude # <<>>
           /\ used.config = mergeConfig(T, mergeConfig(L1, L2))

LayersAsLoaded ==
    /\ Len(configStack.layers) = Len(base)
    /\ \A i \in DOMAIN base :
          /\ configStack.layers[i].Directory = base[i].Directory
          /\ ValueOf(heap, configStack.layers[i].Config) = base[i].Config
          /\ base[i].Directory \in DOMAIN configStack.cache =>
                ValueOf(heap, configStack.cache[base[i].Directory]) = base[i].Config

\* C28: GetEffectiveConfig leaves the layers and the cache as they are and
\* returns a record of its own: whatever the caller assigns to its scalar
\* fields or appends to its lists, every layer and cache entry keeps the
\* configuration that was loaded and a later GetEffectiveConfig returns the
\* merge of these.
C28_ReturnedRecordIsFresh ==
    /\ [](pc = "heap" =>
            /\ LayersAsLoaded
            /\ op.name = "GetEffectiveConfig" =>
                  /\ op.rec \notin StackPointers(configStack)
                  /\ ValueOf(heap, op.rec) =
                        GetEffectiveConfig([configStack EXCEPT !.layers = base]))
    /\ [][op'.name = "GetEffectiveConfig" =>
            /\ configStack' = configStack
            /\ \A id \in StackPointers(configStack) :
                  /\ id \in DOMAIN heap'.objs
                  /\ ValueOf(heap', id) = ValueOf(heap, id)]_vars

\* GetEffectiveConfig has returned again after the caller assigned to and
\* appended to an earlier record; the new record has a list with room to
\* append in place
C28_CalledAfterModification ==
    /\ pc = "heap" /\ op.name = "GetEffectiveConfig" /\ op.modified
    /\ Len(configStack.layers) >= 2
    /\ Cap(heap, heap.objs[op.rec].Include) > heap.objs[op.rec].Include.len

\* The effective configuration of the stack as NewConfigStack left it
EffectiveAtStart == GetEffectiveConfig([configStack EXCEPT !.layers = base])

\* C29: NewConfigStack leaves the home directory's layer, if its config path
\* gave a record, followed by the root directory's, if the root is not the
\* home directory and its config path gave a record, and nothing else; with
\* root equal to home there is at most the one layer of that directory, made
\* from one read (seen on the stack as constructed, before any other call);
\* with no home directory only the root's layer can be there;
\* and a scalar that both layers set has the root layer's value in the
\* effective configuration.
C29_HomeLayerThenRootLayer ==
    pc = "load" =>
      LET home == configStack.homeDir
      IN  /\ Len(base) <= 2
          /\ \A i \in 1..Len(base) : base[i].Directory \in {home, RootDir}
          /\ Len(base) = 2 =>
                /\ home \notin {NoHome, RootDir}
                /\ base[1].Directory = home
                /\ base[2].Directory = RootDir
                /\ base[2].Config.MaxSizeKB > 0 =>
                      EffectiveAtStart.MaxSizeKB = base[2].Config.MaxSizeKB
                /\ base[2].Config.Delimiter # <<>> =>
                      EffectiveAtStart.Delimiter = base[2].Config.Delimiter
          /\ home = NoHome => \A i \in 1..Len(base) : base[i].Directory = RootDir
          /\ op = NoOp =>
              \A homeFile \in LoadConfigFiles, rootFile \in LoadRootConfigFiles :
                LET cs == NewConfigStack(RootDir, home, homeFile, rootFile)
                    homeCfg == loadConfigFromFile(homeFile)
                    rootCfg == loadConfigFromFile(rootFile)
                    homeLayer == IF home # NoHome /\ homeCfg # Nil
                                 THEN <<Layer(home, homeCfg)>> ELSE <<>>
                    rootLayer == IF home # RootDir /\ rootCfg # Nil
                                 THEN <<Layer(RootDir, rootCfg)>> ELSE <<>>
                IN  /\ cs.layers = homeLayer \o rootLayer
                    /\ home = RootDir => Len(cs.layers) <= 1
                    /\ home = RootDir => ReadsOfNew(RootDir, home) = CountRead(<<>>, home)

\* C29 witness: home and root both have a config and disagree on the size
\* limit; the home layer is below the root layer and the root's limit holds
C29_HomeAndRootDisagree ==
    /\ pc = "load"
    /\ Len(base) = 2
    /\ base[1].Directory = configStack.homeDir
    /\ base[2].Directory = RootDir
    /\ base[1].Config.MaxSizeKB = 1024
    /\ base[2].Config.MaxSizeKB = 64
    /\ EffectiveAtStart.MaxSizeKB = 64

\* C30: a PushIfExists that met a missing config file, one that cannot be
\* opened, or one whose read failed returns false, leaves the layers as they
\* were and caches nil for the directory.
C30_UnreadableConfigIsAbsent ==
    [][op'.name = "PushIfExists" /\ op'.opened \in {"absent", "unreadable", "readfails"}
         => /\ ~op'.ret
            /\ configStack'.layers = configStack.layers
            /\ configStack'.cache = CachePut(configStack.cache, op'.dir, Nil)]_vars

\* The patterns of a list that filepath.Match accepts, in their order
RECURSIVE WellFormed(_)
WellFormed(patterns) ==
    IF patterns = <<>> THEN <<>>
    ELSE IF BadPattern(Head(patterns)) THEN WellFormed(Tail(patterns))
    ELSE <<Head(patterns)>> \o WellFormed(Tail(patterns))

\* C31: the result of matchesAnyPatternWithPath is its result on the list
\* without the malformed patterns, which is true exactly when a well-formed
\* pattern of the list matches the name or the path, wherever the malformed
\* ones stand in the list; the call records no failure.
C31_MalformedPatternNeverMatches ==
    pc = "match" /\ op.name = "matchesAnyPatternWithPath" =>
      /\ op.ret = matchesAnyPatternWithPath(op.args.name, op.args.relPath,
                                            WellFormed(op.args.patterns))
      /\ op.ret <=>
            \E i \in DOMAIN op.args.patterns :
              LET pattern == op.args.patterns[i]
              IN  /\ ~BadPattern(pattern)
                  /\ \/ GlobMatch(pattern, op.args.name)
                     \/ /\ op.args.relPath # <<>>
                        /\ \/ GlobMatch(pattern, op.args.relPath)
                           \/ GlobMatch(pattern, WithoutDotSlash(op.args.relPath))
      /\ failure = "none"

\* C31 witness: the call was true on a list whose first pattern is malformed
\* and starts like the name, the match coming from the pattern after it
C31_MatchedAfterMalformed ==
    /\ pc = "match" /\ op.name = "matchesAnyPatternWithPath" /\ op.ret
    /\ Len(op.args.patterns) = 2
    /\ op.args.patterns[1] = sAOpenClass
    /\ op.args.name = sDirA

\* Whether the callback has made the call on the file
Called(call) == \E i \in DOMAIN op.calls : op.calls[i] = call

\* The callback on one file is under way or over
InFileCallback == pc \in {"filters", "info", "size", "preview", "read", "append",
                          "returned", "fatal"} /\ op.name = "callback"

\* C32: FilePreview is called on a file only when the file passed the
\* exclusion and hidden tests, d.Info answered and the size is at most the
\* effective max-size times 1024; a file that passed the filters with exactly
\* that size is classified; os.ReadFile is called only after FilePreview
\* answered text without error, and a block is appended only after
\* os.ReadFile answered; a file above the limit is never classified, read or
\* appended.
C32_ClassifiedOnlyAfterFilters ==
    InFileCallback =>
      LET u == Use(configStack, flags)
          limit == u.config.MaxSizeKB * 1024
          passed == ~Skipped(cur, u, flags) /\ ~op.disk.infoErr
      IN  /\ Called("FilePreview") =>
                /\ passed /\ op.disk.size <= limit
                /\ op.calls[1] = "Info"
          /\ (pc \in {"returned", "fatal"} /\ passed /\ op.disk.size = limit)
                => Called("FilePreview")
          /\ Called("ReadFile") =>
                /\ Called("FilePreview")
                /\ op.disk.isText /\ ~op.disk.previewErr
          /\ (builder # <<>> \/ used.outcome \in {"emit", "overflow"}) =>
                Called("ReadFile") /\ ~op.disk.readErr
          /\ op.disk.size > limit =>
                ~Called("FilePreview") /\ ~Called("ReadFile") /\ builder = <<>>

\* C32 witness: a file of exactly the limit went through d.Info, FilePreview
\* and os.ReadFile in that order and was appended
C32_FileAtLimitEmitted ==
    /\ InFileCallback /\ pc = "returned"
    /\ used.outcome = "emit"
    /\ op.disk.size = used.config.MaxSizeKB * 1024
    /\ op.calls = <<"Info", "FilePreview", "ReadFile">>
    /\ Len(builder) = 1

\* C33: no two layers of the stack belong to the same directory, whatever
\* PushIfExists and Pop calls were made.
C33_OneLayerPerDirectory ==
    \A i, j \in 1..Len(configStack.layers) :
        i # j => configStack.layers[i].Directory # configStack.layers[j].Directory

\* The file of lines was loaded and its layer is the top of the stack
Parsed ==
    /\ pc = "parse" /\ op.name = "PushIfExists"
    /\ Len(configStack.layers) = Len(base) + 1

\* The record made from the file
ParsedConfig == configStack.layers[Len(configStack.layers)].Config

\* The effective configuration before the file's layer was pushed
EffectiveBefore == GetEffectiveConfig([configStack EXCEPT !.layers = base])

\* The positions of the file's lines that are among the given lines
LinesAmong(S) == { i \in DOMAIN op.lines : op.lines[i] \in S }

\* The greatest of a non-empty set of positions
Last(positions) == CHOOSE i \in positions : \A j \in positions : j <= i

\* max-size lines with an integer, and with none
IntegerMaxSizeLines == {lineMaxSize64, lineMaxSize1024}
OtherMaxSizeLines == {lineMaxSizeAbc, lineMaxSizeNone}

\* The integer a max-size line gives
MaxSizeOfLine(line) == IF line = lineMaxSize64 THEN 64 ELSE 1024

Bounds(input) == {0, Len(input) + 1} \cup { i \in DOMAIN input : input[i] = "," }

\* The k-th bounding position, counted from 0
RECURSIVE NthBound(_, _)
NthBound(S, k) ==
    LET least == CHOOSE i \in S : \A j \in S : i <= j
    IN  IF k = 0 THEN least ELSE NthBound(S \ {least}, k - 1)

\* The k-th element of an input, k from 1: what stands between two bounds
Element(input, k) ==
    SubSeq(input, NthBound(Bounds(input), k - 1) + 1, NthBound(Bounds(input), k) - 1)

\* Whether an element has a character that is no white space
HasText(e) == \E i \in DOMAIN e : ~IsSpace(e[i])

\* The elements of an input that have text, by position
TextElements(input) ==
    { k \in 1..(Cardinality(Bounds(input)) - 1) : HasText(Element(input, k)) }

\* An element without the white space before its first and after its last
\* character of text
Stripped(e) ==
    LET text == { i \in DOMAIN e : ~IsSpace(e[i]) }
    IN  SubSeq(e, CHOOSE i \in text : \A j \in text : i <= j,
                  CHOOSE i \in text : \A j \in text : j <= i)

\* C35: parseCommaSeparated returns, in their order, the comma-separated
\* elements of the input that have text, each without its surrounding white
\* space; the empty input gives the empty list; no element of the result is
\* empty, starts or ends with white space, or holds a comma.
C35_ElementsTrimmedInOrder ==
    pc = "list" /\ op.name = "parseCommaSeparated" =>
      LET kept == TextElements(op.input)
      IN  /\ Len(op.ret) = Cardinality(kept)
          /\ \A n \in DOMAIN op.ret :
                /\ op.ret[n] = Stripped(Element(op.input, NthBound(kept, n - 1)))
                /\ op.ret[n] # <<>>
                /\ ~IsSpace(op.ret[n][1]) /\ ~IsSpace(op.ret[n][Len(op.ret[n])])
                /\ \A i \in DOMAIN op.ret[n] : op.ret[n][i] # ","
          /\ op.input = <<>> => op.ret = <<>>

\* C35 witness: an input with an empty element and a padded one gave two
\* elements
C35_EmptyDroppedAndTrimmed ==
    /\ pc = "list" /\ op.name = "parseCommaSeparated"
    /\ op.input = <<"a", ",", ",", " ">> \/ op.input = <<",", " ", "a", "\t">>
    /\ op.ret = <<<<"a">>>>

\* C36: whenever the callback is about to run its pop loop, every order in
\* which the loop can range over pushedDirs leaves the same layers and the
\* same pushedDirs, so that all that follows (the entries skipped, the blocks
\* appended with their delimiters, the layers at the end) is the same in two
\* runs on the same tree, config files and flags.
C36_PopOrderDoesNotMatter ==
    (pc = "walk" /\ todo # <<>>) =>
        \A one, other \in AfterPopLoop(Head(todo)) : one = other

\* The directories of the layers pushed since NewConfigStack
ScopedLayerDirs ==
    { configStack.layers[i].Directory : i \in (Len(base) + 1)..Len(configStack.layers) }

\* C38: after every entry the driver has handled, pushedDirs is the set of
\* the directories of the layers above those NewConfigStack built.
C38_PushedDirsAreTheScopedLayers ==
    (pc \in {"walk", "readdir", "done"} /\ Len(configStack.layers) >= Len(base))
        => pushedDirs = ScopedLayerDirs

\* The directory entry was decided on without its own layer, and its layer
\* was pushed only if it was neither excluded nor hidden
DecidedBeforeOwnLayer ==
    (Handled /\ cur.isDir) =>
        /\ \A i \in DOMAIN used.layers : used.layers[i] # cur.path \/ cur.path = RootDir
        /\ used.outcome = "skipdir" =>
              /\ cur.path \notin DOMAIN configStack.cache
              /\ cur.path \notin ScopedLayerDirs

\* Every layer pushed during the walk was used only for entries beneath its
\* directory
OwnLayerOnlyBeneath ==
    Handled => \A layerDir \in ScopedLayersUsed :
                  HasPrefix(cur.path, layerDir \o Separator)

\* A directory below the root is entered only when no-recursive is not in
\* effect for it; no file is turned away by no-recursive
NoRecursivePrunesSubdirectories ==
    Handled =>
        /\ (cur.isDir /\ cur.path # RootDir /\ used.config.NoRecursive)
              => used.outcome \in {"skipdir", "norecursive"}
        /\ ~cur.isDir => used.outcome \notin {"skipdir", "norecursive", "enter"}

\* C37: a directory is excluded, hidden or skipped for no-recursive by the
\* configuration in effect before its own layer; its layer is not pushed
\* when it is excluded or hidden; a layer is used only for the entries
\* beneath its directory; with no-recursive in effect subdirectories are
\* pruned and files are not.
C37_OwnLayerAppliesBeneathOnly ==
    /\ DecidedBeforeOwnLayer
    /\ OwnLayerOnlyBeneath
    /\ NoRecursivePrunesSubdirectories

\* The include, exclude and no-recursive lines, and what each gives
IncludeLines == {lineIncludeMd, lineIncludeTwo}
ExcludeLines == {lineExcludeMd, lineExcludeA}
NoRecursiveLines == {lineNoRecTrue, lineNoRecFalse, lineNoRecYes}

ListOfLine(line) ==
    IF line = lineIncludeMd \/ line = lineExcludeMd THEN <<sStarMd>>
    ELSE IF line = lineIncludeTwo THEN <<sReadme, sDirA>>
    ELSE <<sDirA>>

\* The layer has the list of the file's last include line and of its last
\* exclude line alone, none when there is no such line, its no-recursive is
\* true exactly when the file's last no-recursive line says true, and the
\* lists of two layers are still added up
ListsAndFlagFromLastLine ==
    LET inc == LinesAmong(IncludeLines)
        exc == LinesAmong(ExcludeLines)
        rec == LinesAmong(NoRecursiveLines)
    IN  /\ ParsedConfig.Include =
              IF inc = {} THEN <<>> ELSE ListOfLine(op.lines[Last(inc)])
        /\ ParsedConfig.Exclude =
              IF exc = {} THEN <<>> ELSE ListOfLine(op.lines[Last(exc)])
        /\ ParsedConfig.NoRecursive =
              (rec # {} /\ op.lines[Last(rec)] = lineNoRecTrue)
        /\ ParsedConfig.Delimiter =
              (IF LinesAmong({lineDelimiter}) = {} THEN <<>> ELSE sDashes)
        /\ GetEffectiveConfig(configStack).Exclude =
              EffectiveBefore.Exclude \o ParsedConfig.Exclude

\* C39 as stated: for every recognised key the last line of the key alone
\* gives the layer's value: the lists and no-recursive as above, and the
\* max-size of the last max-size line, unset when that line has no integer.
C39_LastLineOfAKeyWins ==
    Parsed =>
      LET sizes == LinesAmong(IntegerMaxSizeLines \cup OtherMaxSizeLines)
      IN  /\ ListsAndFlagFromLastLine
          /\ ParsedConfig.MaxSizeKB =
                IF sizes # {} /\ op.lines[Last(sizes)] \in IntegerMaxSizeLines
                THEN MaxSizeOfLine(op.lines[Last(sizes)]) ELSE 0

\* C39 amended: the last line of include, of exclude, of no-recursive and of
\* delimiter alone gives the layer's value, a later list replacing the
\* earlier one; for max-size it is the last line that has an integer.
C39_LastUsableLineOfAKeyWins ==
    Parsed =>
      LET sizes == LinesAmong(IntegerMaxSizeLines)
      IN  /\ ListsAndFlagFromLastLine
          /\ ParsedConfig.MaxSizeKB =
                IF sizes # {} THEN MaxSizeOfLine(op.lines[Last(sizes)]) ELSE 0

\* C39 witness: a file with two exclude lines gave a layer with the second
\* list alone, added to the exclude list of the root layer
C39_SecondLineReplaced ==
    /\ Parsed
    /\ op.lines = <<lineExcludeMd, lineExcludeA>>
    /\ ParsedConfig.Exclude = <<sDirA>>
    /\ GetEffectiveConfig(configStack).Exclude = <<sStarMd, sDirA>>

=============================================================================
